---------------------------- MODULE Spec2Model ----------------------------
(* A model of regalloc2's public data model (src/src/lib.rs): the         *)
(* bit-packed value types PReg, VReg, SpillSlot, Operand, Allocation and  *)
(* the calls a client makes on them, and of a call of run(): the          *)
(* allocator behind it (the `ion` module) is modelled from its            *)
(* specification, over the Function, MachineEnv and Output of lib.rs.     *)
(*                                                                        *)
(* A `u32` is modelled as the set of positions of its one bits (a subset  *)
(* of 0..31), so that shifts, masks and ors are computed exactly as the   *)
(* code computes them, including bit 31.                                  *)
EXTENDS Integers, Sequences, FiniteSets

VARIABLES
    debug_assertions,  \* build profile: are debug_assert!s compiled in
    preg,              \* the PReg the client holds
    vreg,              \* the VReg the client holds
    vregargs,          \* the arguments `vreg` was built from
    slot,              \* the SpillSlot the client holds
    slotargs,          \* the arguments `slot` was built from
    operand,           \* the Operand the client holds
    opargs,            \* the arguments `operand` was built from
    alloc,             \* the Allocation the client holds
    allocargs,         \* the constructor and argument `alloc` was built from
    point,             \* the ProgPoint the client holds
    pointargs,         \* the arguments `point` was built from
    instarg,           \* the instruction the client asked the Output about
    call,              \* the last call made
    ret,               \* its result: Ok(value) or Panicked
    func,              \* run(): the Function being allocated
    env,               \* run(): the MachineEnv
    phase,             \* run(): "idle", "analysis", "allocating" or "done"
    liveness,          \* run(): the operand uses and live ranges found by the analysis
    queue,             \* run(): the bundles still to allocate
    assigned,          \* run(): the bundles committed to a register or spilled
    result             \* run(): Ok(Output) or Err(RegAllocError)

\* the values the client holds
held == <<preg, vreg, vregargs, slot, slotargs, operand, opargs, alloc, allocargs,
          point, pointargs, instarg>>

\* the state of a call of run()
avars == <<func, env, phase, liveness, queue, assigned, result>>

vars == <<debug_assertions, held, call, ret, avars>>

-----------------------------------------------------------------------------
(* Bounds of the model *)

\* How far the sampled inputs reach around each end of a field's range.
Edge == 1

-----------------------------------------------------------------------------
(* u32 / usize arithmetic on bit sets *)

U32Positions == 0..31

RECURSIVE BitsFrom(_, _)
\* the one bits of n, its lowest bit counted as position i
BitsFrom(n, i) ==
    IF n = 0 THEN {}
    ELSE (IF n % 2 = 1 THEN {i} ELSE {}) \cup BitsFrom(n \div 2, i + 1)

\* the bits of a natural number below 2^31
Bits(n) == BitsFrom(n, 0)

RECURSIVE ToNat(_)
\* the number a bit set (without bit 31) stands for
ToNat(S) == IF S = {} THEN 0
            ELSE LET i == CHOOSE x \in S : TRUE
                 IN  (2^i) + ToNat(S \ {i})

\* x << k on u32: bits shifted past bit 31 are dropped
Shl(S, k) == {i + k : i \in S} \cap U32Positions

\* x >> k (logical)
Shr(S, k) == {i - k : i \in {j \in S : j >= k}}

\* x | y
BitOr(S, T) == S \cup T

\* x & y
BitAnd(S, T) == S \cap T

\* x < 2^k
BelowPow2(S, k) == \A i \in S : i < k

-----------------------------------------------------------------------------
(* Results of calls *)

\* a variable that holds no value yet
NoVal == [none |-> TRUE]

\* a call returns Ok(value), or it panics
Ok(v) == [ok |-> TRUE, val |-> v]
Panicked == [ok |-> FALSE]

Some(v) == [some |-> TRUE, val |-> v]
NoneOpt == [some |-> FALSE]

-----------------------------------------------------------------------------
(* RegClass *)

RegClass == {"Int", "Float"}

\* `class as u8`
ClassNum(c) == IF c = "Int" THEN 0 ELSE 1

\* match 0 => Int, 1 => Float
ClassOf(n) == IF n = 0 THEN "Int" ELSE "Float"

-----------------------------------------------------------------------------
(* PReg: struct { hw_enc: u8, class: RegClass } *)

PReg_MAX_BITS == 6
PReg_MAX == (2^PReg_MAX_BITS) - 1
PReg_MAX_INDEX == 2^(PReg_MAX_BITS + 1)

\* PReg::new: indexing HW_ENC_MUST_BE_IN_BOUNDS[hw_enc] panics past PReg::MAX
PReg_new(hw_enc, class) ==
    IF hw_enc > PReg_MAX THEN Panicked
    ELSE Ok([hw_enc |-> hw_enc % 256, class |-> class])

PReg_hw_enc(p) == p.hw_enc

PReg_class(p) == p.class

\* PReg::index: ((self.class as u8 as usize) << 5) | (self.hw_enc as usize)
PReg_index(p) ==
    ToNat(BitOr(Shl(Bits(ClassNum(p.class)), 5), Bits(p.hw_enc)))

\* PReg::from_index
PReg_from_index(index) ==
    LET class == ToNat(BitAnd(Shr(Bits(index), 5), Bits(1)))
        idx   == ToNat(BitAnd(Bits(index), Bits(PReg_MAX)))
    IN  PReg_new(idx, ClassOf(class))

PReg_invalid == PReg_new(PReg_MAX, "Int")

-----------------------------------------------------------------------------
(* VReg: struct { bits: u32 } *)

VReg_MAX_BITS == 21
VReg_MAX == (2^VReg_MAX_BITS) - 1

\* VReg::new: indexing VIRT_REG_MUST_BE_IN_BOUNDS[virt_reg] panics past VReg::MAX
VReg_new(virt_reg, class) ==
    IF virt_reg > VReg_MAX THEN Panicked
    ELSE Ok([bits |-> BitOr(Shl(Bits(virt_reg), 1), Bits(ClassNum(class)))])

VReg_vreg(v) == ToNat(Shr(v.bits, 1))

VReg_class(v) == ClassOf(ToNat(BitAnd(v.bits, Bits(1))))

VReg_invalid == VReg_new(VReg_MAX, "Int")

-----------------------------------------------------------------------------
(* SpillSlot: struct { bits: u32 } *)

SpillSlot_INDEX_BITS == 24

\* SpillSlot::new with the class packed one bit lower, over the slot index
SpillSlot_new_class_at_23(s, class) ==
    IF ~ (s < 2^SpillSlot_INDEX_BITS) THEN Panicked
    ELSE Ok([bits |-> BitOr(Bits(s), Shl(Bits(ClassNum(class)), 23))])

\* SpillSlot::new: assert!(slot < (1 << 24))
SpillSlot_new(s, class) ==
    IF ~ (s < 2^SpillSlot_INDEX_BITS) THEN Panicked
    ELSE Ok([bits |-> BitOr(Bits(s), Shl(Bits(ClassNum(class)), SpillSlot_INDEX_BITS))])

\* self.bits & 0x00ffffff
SpillSlot_index(s) == ToNat(BitAnd(s.bits, Bits((2^SpillSlot_INDEX_BITS) - 1)))

\* match (self.bits >> 24) as u8 { 0 => Int, 1 => Float, _ => unreachable!() }
SpillSlot_class(s) ==
    LET c == ToNat(BitAnd(Shr(s.bits, SpillSlot_INDEX_BITS), Bits(255)))
    IN  IF c = 0 THEN Ok("Int") ELSE IF c = 1 THEN Ok("Float") ELSE Panicked

\* SpillSlot { bits: 0xffff_ffff }
\* SpillSlot::plus: SpillSlot::new(self.index() + offset, self.class())
SpillSlot_plus(s, offset) ==
    LET c == SpillSlot_class(s)
    IN  IF ~ c.ok THEN Panicked
        ELSE SpillSlot_new(SpillSlot_index(s) + offset, c.val)

SpillSlot_invalid == [bits |-> U32Positions]

SpillSlot_is_invalid(s) == s = SpillSlot_invalid

SpillSlot_is_valid(s) == s # SpillSlot_invalid

-----------------------------------------------------------------------------
(* Operand: struct { bits: u32 }, constraint:7 kind:2 pos:1 class:1 vreg:21 *)

OperandKind == {"Def", "Mod", "Use"}

\* `kind as u8`
KindNum(k) == CASE k = "Def" -> 0 [] k = "Mod" -> 1 [] k = "Use" -> 2

OperandPos == {"Early", "Late"}

\* `pos as u8`
PosNum(p) == IF p = "Early" THEN 0 ELSE 1

\* OperandConstraint
Any == [tag |-> "Any"]
Reg == [tag |-> "Reg"]
Stack == [tag |-> "Stack"]
FixedReg(p) == [tag |-> "FixedReg", preg |-> p]
Reuse(i) == [tag |-> "Reuse", idx |-> i]

\* the `constraint_field` of Operand::new: Ok(u32) or a failed assertion
Operand_constraint_field(v, constraint) ==
    CASE constraint.tag = "Any" -> Ok(Bits(0))
      [] constraint.tag = "Reg" -> Ok(Bits(1))
      [] constraint.tag = "Stack" -> Ok(Bits(2))
      [] constraint.tag = "FixedReg" ->
            \* assert_eq!(preg.class(), vreg.class())
            IF PReg_class(constraint.preg) # VReg_class(v) THEN Panicked
            ELSE Ok(BitOr(Bits(64), Bits(PReg_hw_enc(constraint.preg))))
      [] constraint.tag = "Reuse" ->
            \* assert!(which <= 31)
            IF ~ (constraint.idx <= 31) THEN Panicked
            ELSE Ok(BitOr(Bits(32), Bits(constraint.idx)))

\* Operand::new with the kind field packed one bit lower, over the pos bit
Operand_new_kind_at_22(v, constraint, kind, pos) ==
    LET cf == Operand_constraint_field(v, constraint)
        class_field == Bits(ClassNum(VReg_class(v)))
        pos_field == Bits(PosNum(pos))
        kind_field == Bits(KindNum(kind))
    IN  IF ~ cf.ok THEN Panicked
        ELSE Ok([bits |->
                BitOr(Bits(VReg_vreg(v)),
                BitOr(Shl(class_field, 21),
                BitOr(Shl(pos_field, 22),
                BitOr(Shl(kind_field, 22),
                      Shl(cf.val, 25)))))])

\* Operand::new
Operand_new(v, constraint, kind, pos) ==
    LET cf == Operand_constraint_field(v, constraint)
        class_field == Bits(ClassNum(VReg_class(v)))
        pos_field == Bits(PosNum(pos))
        kind_field == Bits(KindNum(kind))
    IN  IF ~ cf.ok THEN Panicked
        ELSE Ok([bits |->
                BitOr(Bits(VReg_vreg(v)),
                BitOr(Shl(class_field, 21),
                BitOr(Shl(pos_field, 22),
                BitOr(Shl(kind_field, 23),
                      Shl(cf.val, 25)))))])

\* Operand::class
Operand_class(o) == ClassOf(ToNat(BitAnd(Shr(o.bits, 21), Bits(1))))

\* Operand::vreg
Operand_vreg(o) ==
    LET vreg_idx == ToNat(BitAnd(o.bits, Bits(VReg_MAX)))
    IN  VReg_new(vreg_idx, Operand_class(o))

\* Operand::kind
Operand_kind(o) ==
    LET kind_field == ToNat(BitAnd(Shr(o.bits, 23), Bits(3)))
    IN  CASE kind_field = 0 -> Ok("Def")
          [] kind_field = 1 -> Ok("Mod")
          [] kind_field = 2 -> Ok("Use")
          [] OTHER -> Panicked

\* Operand::pos
Operand_pos(o) ==
    LET pos_field == ToNat(BitAnd(Shr(o.bits, 22), Bits(1)))
    IN  IF pos_field = 0 THEN "Early" ELSE "Late"

\* Operand::constraint
Operand_constraint(o) ==
    LET constraint_field == BitAnd(Shr(o.bits, 25), Bits(127))
    IN  IF BitAnd(constraint_field, Bits(64)) # {}
        THEN LET p == PReg_new(ToNat(BitAnd(constraint_field, Bits(63))),
                               Operand_class(o))
             IN  IF p.ok THEN Ok(FixedReg(p.val)) ELSE Panicked
        ELSE IF BitAnd(constraint_field, Bits(32)) # {}
        THEN Ok(Reuse(ToNat(BitAnd(constraint_field, Bits(31)))))
        ELSE CASE ToNat(constraint_field) = 0 -> Ok(Any)
               [] ToNat(constraint_field) = 1 -> Ok(Reg)
               [] ToNat(constraint_field) = 2 -> Ok(Stack)
               [] OTHER -> Panicked

\* Operand::bits
Operand_bits(o) == o.bits

\* the debug_assert! of Operand::from_bits: bits >> 29 <= 4
Operand_from_bits_assert(bits) == ToNat(Shr(bits, 29)) <= 4

\* Operand::from_bits
Operand_from_bits(bits, dbg) ==
    IF dbg /\ ~ Operand_from_bits_assert(bits) THEN Panicked
    ELSE Ok([bits |-> bits])

-----------------------------------------------------------------------------
(* Allocation: struct { bits: u32 }, kind:3 unused:1 index:28 *)

AllocationKind == {"None", "Reg", "Stack"}

\* `kind as u8`
AllocKindNum(k) == CASE k = "None" -> 0 [] k = "Reg" -> 1 [] k = "Stack" -> 2

\* Allocation::new with the kind packed one bit lower
Allocation_new_kind_at_28(kind, index) ==
    IF ~ BelowPow2(index, 28) THEN Panicked
    ELSE Ok([bits |-> BitOr(Shl(Bits(AllocKindNum(kind)), 28), index)])

\* Allocation::new, the index given as a bit set: assert!(index < (1 << 28))
Allocation_new(kind, index) ==
    IF ~ BelowPow2(index, 28) THEN Panicked
    ELSE Ok([bits |-> BitOr(Shl(Bits(AllocKindNum(kind)), 29), index)])

\* Allocation::none
Allocation_none == Allocation_new("None", Bits(0))

\* Allocation::reg
Allocation_reg(p) == Allocation_new("Reg", Bits(PReg_index(p)))

\* Allocation::stack: the index is `slot.bits as usize`
Allocation_stack(s) == Allocation_new("Stack", s.bits)

\* Allocation::kind
Allocation_kind(a) ==
    LET k == ToNat(BitAnd(Shr(a.bits, 29), Bits(7)))
    IN  CASE k = 0 -> Ok("None")
          [] k = 1 -> Ok("Reg")
          [] k = 2 -> Ok("Stack")
          [] OTHER -> Panicked

\* Allocation::is_none: self.kind() == AllocationKind::None
Allocation_is_none(a) ==
    LET k == Allocation_kind(a)
    IN  IF k.ok THEN Ok(k.val = "None") ELSE Panicked

\* Allocation::is_some: self.kind() != AllocationKind::None
Allocation_is_some(a) ==
    LET k == Allocation_kind(a)
    IN  IF k.ok THEN Ok(k.val # "None") ELSE Panicked

\* Allocation::is_reg: self.kind() == AllocationKind::Reg
Allocation_is_reg(a) ==
    LET k == Allocation_kind(a)
    IN  IF k.ok THEN Ok(k.val = "Reg") ELSE Panicked

\* Allocation::is_stack: self.kind() == AllocationKind::Stack
Allocation_is_stack(a) ==
    LET k == Allocation_kind(a)
    IN  IF k.ok THEN Ok(k.val = "Stack") ELSE Panicked

\* Allocation::index, as a bit set: self.bits & ((1 << 28) - 1)
Allocation_index(a) == BitAnd(a.bits, Bits((2^28) - 1))

\* Allocation::as_reg
Allocation_as_reg(a) ==
    LET k == Allocation_kind(a)
    IN  IF ~ k.ok THEN Panicked
        ELSE IF k.val = "Reg"
        THEN LET p == PReg_from_index(ToNat(Allocation_index(a)))
             IN  IF p.ok THEN Ok(Some(p.val)) ELSE Panicked
        ELSE Ok(NoneOpt)

\* Allocation::as_stack
Allocation_as_stack(a) ==
    LET k == Allocation_kind(a)
    IN  IF ~ k.ok THEN Panicked
        ELSE IF k.val = "Stack"
        THEN Ok(Some([bits |-> Allocation_index(a)]))
        ELSE Ok(NoneOpt)

\* Allocation::bits
Allocation_bits(a) == a.bits

\* the debug_assert! of Allocation::from_bits: bits >> 29 >= 5
Allocation_from_bits_assert(bits) == ToNat(Shr(bits, 29)) >= 5

\* Allocation::from_bits
Allocation_from_bits(bits, dbg) ==
    IF dbg /\ ~ Allocation_from_bits_assert(bits) THEN Panicked
    ELSE Ok([bits |-> bits])

\* Allocation::class
Allocation_class(a) ==
    LET k == Allocation_kind(a)
    IN  IF ~ k.ok THEN Panicked
        ELSE CASE k.val = "None" -> Panicked
               [] k.val = "Reg" ->
                    LET r == Allocation_as_reg(a)
                    IN  IF r.ok /\ r.val.some THEN Ok(PReg_class(r.val.val))
                        ELSE Panicked
               [] k.val = "Stack" ->
                    LET r == Allocation_as_stack(a)
                    IN  IF r.ok /\ r.val.some THEN SpillSlot_class(r.val.val)
                        ELSE Panicked

-----------------------------------------------------------------------------
(* The inputs a client passes: both ends of every field's range, the      *)
(* first values past it, and alternating bit patterns in between.         *)

HwEncs == 0..(PReg_MAX + Edge)

VRegIds == (0..Edge) \cup ((VReg_MAX - Edge)..(VReg_MAX + Edge))
           \cup {1398101, 699050}

SlotIds == (0..Edge)
           \cup (((2^SpillSlot_INDEX_BITS) - 1 - Edge)..((2^SpillSlot_INDEX_BITS) - 1 + Edge))
           \cup {5592405, 11184810}

ReuseIdxs == 0..(31 + Edge)

\* offsets passed to SpillSlot::plus
SlotOffsets == 0..(Edge + 1)

\* indices passed to Allocation::new, as bit sets: around 0 and 2^28
AllocIdxs ==
    {Bits(n) : n \in (0..Edge) \cup (((2^28) - 1 - Edge)..((2^28) + Edge))}

\* the value a successful call leaves in a variable
Held(r) == IF r.ok THEN r.val ELSE NoVal

-----------------------------------------------------------------------------
(* The client's calls. A client session builds values and calls their    *)
(* accessors; Drop ends the session and starts the next one.              *)

Init ==
    /\ debug_assertions \in BOOLEAN
    /\ preg = NoVal
    /\ vreg = NoVal
    /\ vregargs = NoVal
    /\ slot = NoVal
    /\ slotargs = NoVal
    /\ operand = NoVal
    /\ opargs = NoVal
    /\ alloc = NoVal
    /\ allocargs = NoVal
    /\ point = NoVal
    /\ pointargs = NoVal
    /\ instarg = NoVal
    /\ call = "start"
    /\ ret = NoVal
    /\ func = NoVal
    /\ env = NoVal
    /\ phase = "idle"
    /\ liveness = NoVal
    /\ queue = {}
    /\ assigned = {}
    /\ result = NoVal

\* let p = PReg::new(hw_enc, class)
PRegNew(hw_enc, class) ==
    /\ call = "start"
    /\ call' = "PReg::new"
    /\ ret' = PReg_new(hw_enc, class)
    /\ preg' = Held(ret')
    /\ vreg' = NoVal /\ vregargs' = NoVal
    /\ slot' = NoVal /\ slotargs' = NoVal
    /\ operand' = NoVal /\ opargs' = NoVal
    /\ alloc' = NoVal /\ allocargs' = NoVal
    /\ point' = NoVal /\ pointargs' = NoVal /\ instarg' = NoVal
    /\ UNCHANGED <<debug_assertions, avars>>

\* p.index()
CallPRegIndex ==
    /\ preg # NoVal
    /\ call = "PReg::new"
    /\ call' = "PReg::index"
    /\ ret' = Ok(PReg_index(preg))
    /\ UNCHANGED <<debug_assertions, held, avars>>

\* PReg::from_index(p.index())
CallPRegFromIndex ==
    /\ call = "PReg::index"
    /\ call' = "PReg::from_index"
    /\ ret' = PReg_from_index(ret.val)
    /\ UNCHANGED <<debug_assertions, held, avars>>

\* let v = VReg::new(virt_reg, class)
VRegNew(virt_reg, class) ==
    /\ call \in {"start", "PReg::new"}
    /\ call' = "VReg::new"
    /\ ret' = VReg_new(virt_reg, class)
    /\ vreg' = Held(ret')
    /\ vregargs' = IF ret'.ok THEN [virt_reg |-> virt_reg, class |-> class] ELSE NoVal
    /\ slot' = NoVal /\ slotargs' = NoVal
    /\ operand' = NoVal /\ opargs' = NoVal
    /\ alloc' = NoVal /\ allocargs' = NoVal
    /\ point' = NoVal /\ pointargs' = NoVal /\ instarg' = NoVal
    /\ UNCHANGED <<debug_assertions, preg, avars>>

\* let s = SpillSlot::new(slot, class)
SpillSlotNew(s, class) ==
    /\ call = "start"
    /\ call' = "SpillSlot::new"
    /\ ret' = SpillSlot_new(s, class)
    /\ slot' = Held(ret')
    /\ slotargs' = IF ret'.ok THEN [slot |-> s, class |-> class] ELSE NoVal
    /\ preg' = NoVal /\ vreg' = NoVal /\ vregargs' = NoVal
    /\ operand' = NoVal /\ opargs' = NoVal
    /\ alloc' = NoVal /\ allocargs' = NoVal
    /\ point' = NoVal /\ pointargs' = NoVal /\ instarg' = NoVal
    /\ UNCHANGED <<debug_assertions, avars>>

\* the constraints the client writes down: a client that holds a PReg
\* fixes the operand to it
Constraints ==
    IF preg = NoVal
    THEN {Any, Reg, Stack} \cup {Reuse(i) : i \in ReuseIdxs}
    ELSE {FixedReg(preg)}

\* let op = Operand::new(v, constraint, kind, pos)
OperandNew(constraint, kind, pos) ==
    /\ vreg # NoVal
    /\ call = "VReg::new"
    /\ call' = "Operand::new"
    /\ ret' = Operand_new(vreg, constraint, kind, pos)
    /\ operand' = Held(ret')
    /\ opargs' = IF ret'.ok
                 THEN [vreg |-> vreg, virt_reg |-> vregargs.virt_reg,
                       class |-> vregargs.class, constraint |-> constraint,
                       kind |-> kind, pos |-> pos]
                 ELSE NoVal
    /\ preg' = NoVal /\ vreg' = NoVal /\ vregargs' = NoVal
    /\ slot' = NoVal /\ slotargs' = NoVal
    /\ alloc' = NoVal /\ allocargs' = NoVal
    /\ point' = NoVal /\ pointargs' = NoVal /\ instarg' = NoVal
    /\ UNCHANGED <<debug_assertions, avars>>

\* a call on the operand held, which leaves every value held as it is
OperandCall(name, r) ==
    /\ operand # NoVal
    /\ call' = name
    /\ ret' = r
    /\ UNCHANGED <<debug_assertions, held, avars>>

CallOperandVreg == OperandCall("Operand::vreg", Operand_vreg(operand))

CallOperandClass == OperandCall("Operand::class", Ok(Operand_class(operand)))

CallOperandKind == OperandCall("Operand::kind", Operand_kind(operand))

CallOperandPos == OperandCall("Operand::pos", Ok(Operand_pos(operand)))

CallOperandConstraint ==
    OperandCall("Operand::constraint", Operand_constraint(operand))

CallOperandBits == OperandCall("Operand::bits", Ok(Operand_bits(operand)))

\* Operand::from_bits(op.bits())
CallOperandFromBits ==
    /\ call = "Operand::bits"
    /\ OperandCall("Operand::from_bits",
                   Operand_from_bits(ret.val, debug_assertions))

\* let a = Allocation::none()
AllocationNone ==
    /\ call = "start"
    /\ call' = "Allocation::none"
    /\ ret' = Allocation_none
    /\ alloc' = Held(ret')
    /\ allocargs' = [ctor |-> "none"]
    /\ preg' = NoVal /\ vreg' = NoVal /\ vregargs' = NoVal
    /\ slot' = NoVal /\ slotargs' = NoVal
    /\ operand' = NoVal /\ opargs' = NoVal
    /\ point' = NoVal /\ pointargs' = NoVal /\ instarg' = NoVal
    /\ UNCHANGED <<debug_assertions, avars>>

\* let a = Allocation::reg(p)
AllocationReg ==
    /\ preg # NoVal
    /\ call = "PReg::new"
    /\ call' = "Allocation::reg"
    /\ ret' = Allocation_reg(preg)
    /\ alloc' = Held(ret')
    /\ allocargs' = [ctor |-> "reg", preg |-> preg]
    /\ preg' = NoVal /\ vreg' = NoVal /\ vregargs' = NoVal
    /\ slot' = NoVal /\ slotargs' = NoVal
    /\ operand' = NoVal /\ opargs' = NoVal
    /\ point' = NoVal /\ pointargs' = NoVal /\ instarg' = NoVal
    /\ UNCHANGED <<debug_assertions, avars>>

\* let a = Allocation::stack(s)
AllocationStack ==
    /\ slot # NoVal
    /\ call = "SpillSlot::new"
    /\ call' = "Allocation::stack"
    /\ ret' = Allocation_stack(slot)
    /\ alloc' = Held(ret')
    /\ allocargs' = [ctor |-> "stack", slot |-> slot, class |-> slotargs.class]
    /\ preg' = NoVal /\ vreg' = NoVal /\ vregargs' = NoVal
    /\ slot' = NoVal /\ slotargs' = NoVal
    /\ operand' = NoVal /\ opargs' = NoVal
    /\ point' = NoVal /\ pointargs' = NoVal /\ instarg' = NoVal
    /\ UNCHANGED <<debug_assertions, avars>>

\* a call on the allocation held, which leaves every value held as it is
AllocationCall(name, r) ==
    /\ alloc # NoVal
    /\ call' = name
    /\ ret' = r
    /\ UNCHANGED <<debug_assertions, held, avars>>

CallAllocationKind == AllocationCall("Allocation::kind", Allocation_kind(alloc))

CallAllocationIsNone ==
    AllocationCall("Allocation::is_none", Allocation_is_none(alloc))

CallAllocationIsSome ==
    AllocationCall("Allocation::is_some", Allocation_is_some(alloc))

CallAllocationIsReg ==
    AllocationCall("Allocation::is_reg", Allocation_is_reg(alloc))

CallAllocationIsStack ==
    AllocationCall("Allocation::is_stack", Allocation_is_stack(alloc))

CallAllocationIndex ==
    AllocationCall("Allocation::index", Ok(Allocation_index(alloc)))

CallAllocationAsReg ==
    AllocationCall("Allocation::as_reg", Allocation_as_reg(alloc))

CallAllocationAsStack ==
    AllocationCall("Allocation::as_stack", Allocation_as_stack(alloc))

CallAllocationClass ==
    AllocationCall("Allocation::class", Allocation_class(alloc))

CallAllocationBits ==
    AllocationCall("Allocation::bits", Ok(Allocation_bits(alloc)))

\* Allocation::from_bits(a.bits())
CallAllocationFromBits ==
    /\ call = "Allocation::bits"
    /\ AllocationCall("Allocation::from_bits",
                      Allocation_from_bits(ret.val, debug_assertions))

\* let s = SpillSlot::invalid()
SpillSlotInvalid ==
    /\ call = "start"
    /\ call' = "SpillSlot::invalid"
    /\ ret' = Ok(SpillSlot_invalid)
    /\ slot' = Held(ret')
    /\ slotargs' = NoVal
    /\ preg' = NoVal /\ vreg' = NoVal /\ vregargs' = NoVal
    /\ operand' = NoVal /\ opargs' = NoVal
    /\ alloc' = NoVal /\ allocargs' = NoVal
    /\ point' = NoVal /\ pointargs' = NoVal /\ instarg' = NoVal
    /\ UNCHANGED <<debug_assertions, avars>>

\* a call on the spill slot held, which leaves every value held as it is
SpillSlotCall(name, r) ==
    /\ slot # NoVal
    /\ call \in {"SpillSlot::new", "SpillSlot::invalid"}
    /\ call' = name
    /\ ret' = r
    /\ UNCHANGED <<debug_assertions, held, avars>>

CallSpillSlotIndex == SpillSlotCall("SpillSlot::index", Ok(SpillSlot_index(slot)))

CallSpillSlotClass == SpillSlotCall("SpillSlot::class", SpillSlot_class(slot))

CallSpillSlotIsInvalid ==
    SpillSlotCall("SpillSlot::is_invalid", Ok(SpillSlot_is_invalid(slot)))

CallSpillSlotIsValid ==
    SpillSlotCall("SpillSlot::is_valid", Ok(SpillSlot_is_valid(slot)))

\* let s = s.plus(offset)
SpillSlotPlus(offset) ==
    /\ slot # NoVal
    /\ call = "SpillSlot::new"
    /\ call' = "SpillSlot::plus"
    /\ ret' = SpillSlot_plus(slot, offset)
    /\ slot' = Held(ret')
    /\ slotargs' = IF ret'.ok
                   THEN [slot |-> slotargs.slot + offset, class |-> slotargs.class]
                   ELSE NoVal
    /\ UNCHANGED <<debug_assertions, preg, vreg, vregargs, operand, opargs,
                   alloc, allocargs, point, pointargs, instarg, avars>>

\* let a = Allocation::new(kind, index), as the crate calls it
AllocationNew(kind, index) ==
    /\ call = "start"
    /\ call' = "Allocation::new"
    /\ ret' = Allocation_new(kind, index)
    /\ alloc' = Held(ret')
    /\ allocargs' = [ctor |-> "new", kind |-> kind, index |-> index]
    /\ preg' = NoVal /\ vreg' = NoVal /\ vregargs' = NoVal
    /\ slot' = NoVal /\ slotargs' = NoVal
    /\ operand' = NoVal /\ opargs' = NoVal
    /\ point' = NoVal /\ pointargs' = NoVal /\ instarg' = NoVal
    /\ UNCHANGED <<debug_assertions, avars>>

\* the values held go out of scope
Drop ==
    /\ call # "start"
    /\ call' = "start"
    /\ ret' = NoVal
    /\ preg' = NoVal /\ vreg' = NoVal /\ vregargs' = NoVal
    /\ slot' = NoVal /\ slotargs' = NoVal
    /\ operand' = NoVal /\ opargs' = NoVal
    /\ alloc' = NoVal /\ allocargs' = NoVal
    /\ point' = NoVal /\ pointargs' = NoVal /\ instarg' = NoVal
    /\ UNCHANGED <<debug_assertions, avars>>

\* a client of PReg, SpillSlot and Allocation
Next ==
    \/ \E h \in HwEncs, c \in RegClass : PRegNew(h, c)
    \/ CallPRegIndex
    \/ CallPRegFromIndex
    \/ \E s \in SlotIds, c \in RegClass : SpillSlotNew(s, c)
    \/ SpillSlotInvalid
    \/ CallSpillSlotIndex
    \/ CallSpillSlotClass
    \/ CallSpillSlotIsInvalid
    \/ CallSpillSlotIsValid
    \/ AllocationNone
    \/ AllocationReg
    \/ AllocationStack
    \/ CallAllocationKind
    \/ CallAllocationIsNone
    \/ CallAllocationIsSome
    \/ CallAllocationIsReg
    \/ CallAllocationIsStack
    \/ CallAllocationIndex
    \/ CallAllocationAsReg
    \/ CallAllocationAsStack
    \/ CallAllocationClass
    \/ CallAllocationBits
    \/ CallAllocationFromBits
    \/ Drop

Spec == Init /\ [][Next]_vars

\* a client of Operand, which builds operands from the VReg and PReg it holds
NextOperand ==
    \/ \E h \in HwEncs, c \in RegClass : PRegNew(h, c)
    \/ \E id \in VRegIds, c \in RegClass : VRegNew(id, c)
    \/ \E k \in OperandKind, p \in OperandPos :
          \E constraint \in Constraints : OperandNew(constraint, k, p)
    \/ CallOperandVreg
    \/ CallOperandClass
    \/ CallOperandKind
    \/ CallOperandPos
    \/ CallOperandConstraint
    \/ CallOperandBits
    \/ CallOperandFromBits
    \/ Drop

SpecOperand == Init /\ [][NextOperand]_vars

-----------------------------------------------------------------------------
(* ProgPoint: struct { bits: u32 }, and Output *)

InstPosition == {"Before", "After"}

\* `pos as u8`
InstPosNum(p) == IF p = "Before" THEN 0 ELSE 1

\* Inst::new(index): the index kept in 32 bits
Inst_new(index) == [bits |-> Bits(index)]

\* Inst::invalid(): -1, all ones
Inst_invalid == [bits |-> U32Positions]

\* ProgPoint::new: ((inst.0 as u32) << 1) | (pos as u8 as u32)
ProgPoint_new(inst, pos) ==
    [bits |-> BitOr(Shl(inst.bits, 1), Bits(InstPosNum(pos)))]

ProgPoint_before(inst) == ProgPoint_new(inst, "Before")

ProgPoint_after(inst) == ProgPoint_new(inst, "After")

\* ProgPoint::to_index, as a number
ProgPoint_to_index(p) == ToNat(p.bits)

\* x + 1 on u32, wrapping
Inc(S) ==
    IF S = U32Positions THEN {}
    ELSE LET z == CHOOSE i \in U32Positions \ S :
                      \A j \in U32Positions \ S : i <= j
         IN  {i \in S : i > z} \cup {z}

\* x - 1 on u32, wrapping
Dec(S) ==
    IF S = {} THEN U32Positions
    ELSE LET z == CHOOSE i \in S : \A j \in S : i <= j
         IN  {i \in S : i > z} \cup {i \in U32Positions : i < z}

\* x < y on u32
Lt(S, T) ==
    \E i \in T \ S : \A j \in U32Positions : j > i => (j \in S <=> j \in T)

\* ProgPoint::inst: Inst::new(((self.bits as i32) >> 1) as usize), the shift
\* copying the sign bit
ProgPoint_inst(p) ==
    [bits |-> Shr(p.bits, 1) \cup (IF 31 \in p.bits THEN {31} ELSE {})]

\* ProgPoint::pos
ProgPoint_pos(p) == IF 0 \in p.bits THEN "After" ELSE "Before"

\* ProgPoint::next: bits + 1, which panics on overflow in a build that checks
\* arithmetic (the default wherever debug assertions are on) and wraps
\* otherwise
ProgPoint_next(p, checked) ==
    IF p.bits = U32Positions /\ checked THEN Panicked
    ELSE Ok([bits |-> Inc(p.bits)])

\* ProgPoint::prev: bits - 1, likewise
ProgPoint_prev(p, checked) ==
    IF p.bits = {} /\ checked THEN Panicked
    ELSE Ok([bits |-> Dec(p.bits)])

\* derived Ord of ProgPoint: p < q
ProgPoint_lt(p, q) == Lt(p.bits, q.bits)

RECURSIVE Plus(_, _)
\* x + n on u32, wrapping
Plus(S, n) == IF n = 0 THEN S ELSE Plus(Inc(S), n - 1)

RECURSIVE Minus(_, _)
\* x - n on u32, wrapping
Minus(S, n) == IF n = 0 THEN S ELSE Minus(Dec(S), n - 1)

\* the instruction indices a client passes: the first ones, the ones around
\* 2^30 and 2^31, and the last ones of 32 bits, Inst::invalid() among them
InstIdxs ==
    {[bits |-> Plus(b, n)] : b \in {{}, {30}, {31}}, n \in 0..Edge}
    \cup {[bits |-> Minus(b, n)] : b \in {{}, {30}, {31}}, n \in 1..(Edge + 1)}

\* let pt = ProgPoint::new(inst, pos)
ProgPointNew(inst, pos) ==
    /\ call = "start"
    /\ call' = "ProgPoint::new"
    /\ ret' = Ok(ProgPoint_new(inst, pos))
    /\ point' = Held(ret')
    /\ pointargs' = [inst |-> inst, pos |-> pos]
    /\ instarg' = NoVal
    /\ preg' = NoVal /\ vreg' = NoVal /\ vregargs' = NoVal
    /\ slot' = NoVal /\ slotargs' = NoVal
    /\ operand' = NoVal /\ opargs' = NoVal
    /\ alloc' = NoVal /\ allocargs' = NoVal
    /\ UNCHANGED <<debug_assertions, avars>>

\* a call on a program point, which leaves every value held as it is
ProgPointCall(name, r) ==
    /\ point # NoVal
    /\ call' = name
    /\ ret' = r
    /\ UNCHANGED <<debug_assertions, held, avars>>

\* pt.inst()
CallProgPointInst ==
    /\ call = "ProgPoint::new"
    /\ ProgPointCall("ProgPoint::inst", Ok(ProgPoint_inst(point)))

\* pt.pos()
CallProgPointPos ==
    /\ call = "ProgPoint::new"
    /\ ProgPointCall("ProgPoint::pos", Ok(ProgPoint_pos(point)))

\* pt.next()
CallProgPointNext ==
    /\ call = "ProgPoint::new"
    /\ ProgPointCall("ProgPoint::next", ProgPoint_next(point, debug_assertions))

\* pt.prev()
CallProgPointPrev ==
    /\ call = "ProgPoint::new"
    /\ ProgPointCall("ProgPoint::prev", ProgPoint_prev(point, debug_assertions))

\* pt.next().prev()
CallProgPointNextPrev ==
    /\ call = "ProgPoint::next"
    /\ ret.ok
    /\ ProgPointCall("ProgPoint::next.prev",
                     ProgPoint_prev(ret.val, debug_assertions))

\* pt.prev().next()
CallProgPointPrevNext ==
    /\ call = "ProgPoint::prev"
    /\ ret.ok
    /\ ProgPointCall("ProgPoint::prev.next",
                     ProgPoint_next(ret.val, debug_assertions))

\* a client of ProgPoint
NextProgPoint ==
    \/ \E i \in InstIdxs, pos \in InstPosition : ProgPointNew(i, pos)
    \/ CallProgPointInst
    \/ CallProgPointPos
    \/ CallProgPointNext
    \/ CallProgPointPrev
    \/ CallProgPointNextPrev
    \/ CallProgPointPrevNext
    \/ Drop

SpecProgPoint == Init /\ [][NextProgPoint]_vars

\* a client that builds values of every encoded type
NextConstructors ==
    \/ \E h \in HwEncs, c \in RegClass : PRegNew(h, c)
    \/ \E id \in VRegIds, c \in RegClass : VRegNew(id, c)
    \/ \E sl \in SlotIds, c \in RegClass : SpillSlotNew(sl, c)
    \/ \E off \in SlotOffsets : SpillSlotPlus(off)
    \/ \E k \in OperandKind, p \in OperandPos :
          \E constraint \in Constraints : OperandNew(constraint, k, p)
    \/ \E k \in AllocationKind, idx \in AllocIdxs : AllocationNew(k, idx)
    \/ AllocationNone
    \/ AllocationReg
    \/ AllocationStack
    \/ \E i \in InstIdxs, pos \in InstPosition : ProgPointNew(i, pos)
    \/ Drop

SpecConstructors == Init /\ [][NextConstructors]_vars

\* inst_allocs were every slice to run to the end of the allocation array
Output_inst_allocs_to_the_end(out, inst) ==
    LET start == out.inst_alloc_offsets[inst + 1]
        end   == Len(out.allocs)
    IN  IF start <= end
        THEN Ok(SubSeq(out.allocs, start + 1, end))
        ELSE Panicked

\* Output::inst_allocs: &self.allocs[start..end], which panics on a bad range
Output_inst_allocs(out, inst) ==
    LET start == out.inst_alloc_offsets[inst + 1]
        end   == IF inst + 1 = Len(out.inst_alloc_offsets)
                 THEN Len(out.allocs)
                 ELSE out.inst_alloc_offsets[inst + 2]
    IN  IF start <= end /\ end <= Len(out.allocs)
        THEN Ok(SubSeq(out.allocs, start + 1, end))
        ELSE Panicked

-----------------------------------------------------------------------------
(* The inputs of run(): a MachineEnv and a Function *)

\* How many instructions the functions given to run() have.
NumInsts == 3

Insts == 0..(NumInsts - 1)
LastInst == NumInsts - 1
\* the instructions between the first and the last
Middles == 1..(NumInsts - 2)

\* A MachineEnv with two allocatable Int registers (hw_enc base, base + 1),
\* one allocatable Float register (hw_enc 0) and a scratch register per class.
MachineEnv(base) ==
    LET I(h) == PReg_new(h, "Int").val
        F(h) == PReg_new(h, "Float").val
    IN  [regs |-> {I(base), I(base + 1), I(base + 2), F(0), F(1)},
         preferred_regs_by_class |-> [c \in RegClass |->
            IF c = "Int" THEN <<I(base)>> ELSE <<F(0)>>],
         non_preferred_regs_by_class |-> [c \in RegClass |->
            IF c = "Int" THEN <<I(base + 1)>> ELSE <<>>],
         scratch_by_class |-> [c \in RegClass |->
            IF c = "Int" THEN I(base + 2) ELSE F(1)]]

\* the machines run() is given: low and high hardware encodings
MachineEnvs == {MachineEnv(0), MachineEnv(32)}

Range(seq) == {seq[i] : i \in 1..Len(seq)}

\* the registers the allocator may hand out for a class
Allocatable(e, class) ==
    Range(e.preferred_regs_by_class[class])
    \cup Range(e.non_preferred_regs_by_class[class])

\* Operand::reg_use
Operand_reg_use(v) == Operand_new(v, Reg, "Use", "Early").val

\* Operand::reg_def
Operand_reg_def(v) == Operand_new(v, Reg, "Def", "Late").val

\* Operand::reg_reuse_def
Operand_reg_reuse_def(v, idx) == Operand_new(v, Reuse(idx), "Def", "Late").val

\* Operand::reg_fixed_use
Operand_reg_fixed_use(v, p) == Operand_new(v, FixedReg(p), "Use", "Early").val

\* Operand::reg_fixed_def
Operand_reg_fixed_def(v, p) == Operand_new(v, FixedReg(p), "Def", "Late").val

\* what a middle instruction is: a plain instruction that may use v1, one
\* that clobbers the first Int register, a safepoint, a def reusing v1, or a
\* move of v1 into a new vreg, both anywhere or both on the stack
MiddleFlavors ==
    {[kind |-> "plain", use |-> u] : u \in {"none", "Reg", "Stack"}}
    \cup {[kind |-> "clobber"]}
    \cup {[kind |-> "safepoint", refs |-> r] : r \in {{1}, {1, 2}}}
    \cup {[kind |-> "reuse"]}
    \cup {[kind |-> "move", at |-> c] : c \in {"Any", "Stack"}}

\* the second vreg: its class, whether the first instruction defines it, and
\* the constraint of its use by the last instruction
V2Specs ==
    {[class |-> c, def |-> TRUE, use |-> u] :
        c \in RegClass, u \in {"Reg", "Stack", "Fixed"}}
    \cup {[class |-> "Int", def |-> FALSE, use |-> "Reg"]}

\* an early use of v under the constraint named
UseOp(v, name, p) ==
    CASE name = "Reg" -> Operand_reg_use(v)
      [] name = "Fixed" -> Operand_reg_fixed_use(v, p)
      [] name = "Stack" -> Operand_new(v, Stack, "Use", "Early").val
      [] name = "Any" -> Operand_new(v, Any, "Use", "Early").val

\* the vreg a reusing or moving middle instruction i defines
ReuseVReg(i) == VReg_new(2 + i, "Int").val

\* the vreg the running value is in at instruction j: v1, or the def of the
\* latest reusing or moving instruction before j
CurVReg(mid, j) ==
    LET R == {i \in Middles : i < j /\ mid[i].kind \in {"reuse", "move"}}
    IN  IF R = {} THEN VReg_new(1, "Int").val
        ELSE ReuseVReg(CHOOSE i \in R : \A k \in R : k <= i)

\* the (src, dst) operands of a moving middle instruction i
MoveOps(mid, i) ==
    <<UseOp(CurVReg(mid, i), mid[i].at, CurVReg(mid, i)),
      Operand_new(ReuseVReg(i), IF mid[i].at = "Stack" THEN Stack ELSE Any,
                  "Def", "Late").val>>

\* a Function as its instruction half and its control-flow half
Both(insts, cfg) ==
    [k \in DOMAIN insts \cup DOMAIN cfg |->
        IF k \in DOMAIN insts THEN insts[k] ELSE cfg[k]]

\* Block layouts: block_insns as InstRange [from, to) of each block.
OneBlock == [b \in {0} |-> [from |-> 0, to |-> NumInsts]]

TwoBlocks ==
    [b \in {0, 1} |-> IF b = 0 THEN [from |-> 0, to |-> LastInst]
                      ELSE [from |-> LastInst, to |-> NumInsts]]

ThreeBlocks ==
    [b \in {0, 1, 2} |->
        CASE b = 0 -> [from |-> 0, to |-> 1]
          [] b = 1 -> [from |-> 1, to |-> LastInst]
          [] b = 2 -> [from |-> LastInst, to |-> NumInsts]]

RECURSIVE AscendingSeq(_)
\* the blocks of S as a slice, in ascending order
AscendingSeq(S) ==
    IF S = {} THEN <<>>
    ELSE LET m == CHOOSE x \in S : \A y \in S : x <= y
         IN  <<m>> \o AscendingSeq(S \ {m})

\* the elements of a slice
Elems(q) == {q[k] : k \in 1..Len(q)}

\* The control-flow half of a Function: blocks laid out as `insns`, edges
\* as `succs` says; the last instruction of a block is a ret when the block
\* has no successor and a branch otherwise. `bad` names a departure from
\* that: block b has no terminator, or instruction 0 is a ret inside its
\* block.
CFG(insns, succs, bad) ==
    LET blocks == DOMAIN insns
        term == [i \in Insts |-> \E b \in blocks : insns[b].to = i + 1]
        blockOf == [i \in Insts |->
            CHOOSE b \in blocks : insns[b].from <= i /\ i < insns[b].to]
        dropped == [i \in Insts |->
            bad.tag = "noterm" /\ blockOf[i] = bad.block]
    IN  [num_blocks |-> Cardinality(blocks),
         entry_block |-> 0,
         block_insns |-> insns,
         block_succs |-> [b \in blocks |-> AscendingSeq(succs[b])],
         block_preds |-> [b \in blocks |->
            AscendingSeq({a \in blocks : b \in succs[a]})],
         block_params |-> [b \in blocks |-> <<>>],
         is_ret |-> [i \in Insts |->
            \/ term[i] /\ succs[blockOf[i]] = {} /\ ~ dropped[i]
            \/ bad.tag = "inner" /\ i = 0 /\ ~ term[i]],
         is_branch |-> [i \in Insts |->
            term[i] /\ succs[blockOf[i]] # {} /\ ~ dropped[i]],
         branch_blockparam_arg_offset |-> [i \in Insts |-> 0]]

\* the control flows run() is given
CFGs ==
    {CFG(OneBlock, [b \in {0} |-> s], bad) :
        s \in SUBSET {0},
        bad \in {[tag |-> "wellformed"], [tag |-> "noterm", block |-> 0],
                 [tag |-> "inner"]}}
    \cup {CFG(TwoBlocks, s, bad) :
            s \in [{0, 1} -> SUBSET {0, 1}],
            bad \in {[tag |-> "wellformed"], [tag |-> "inner"]}}
    \cup {CFG(ThreeBlocks, s, bad) :
            s \in [{0, 1, 2} -> SUBSET {0, 1, 2}],
            bad \in {[tag |-> "wellformed"], [tag |-> "noterm", block |-> 1]}}

\* the block an instruction is in
BlockOf(f, i) ==
    CHOOSE b \in DOMAIN f.block_insns :
        f.block_insns[b].from <= i /\ i < f.block_insns[b].to

\* g is a chain: block 0 enters block 1, ..., and the last block returns
IsChain(g) ==
    /\ \A b \in DOMAIN g.block_insns :
          Elems(g.block_succs[b]) =
              IF b + 1 \in DOMAIN g.block_insns THEN {b + 1} ELSE {}
    /\ \A i \in Insts :
          /\ g.is_ret[i] <=> i = LastInst
          /\ g.is_branch[i] <=>
                \E b \in DOMAIN g.block_insns :
                    g.block_insns[b].to = i + 1 /\ i # LastInst

\* instruction i is a branch into a block of more than one predecessor
BranchEntersJoin(g, i) ==
    /\ g.is_branch[i]
    /\ \E t \in Elems(g.block_succs[BlockOf(g, i)]) :
          Len(g.block_preds[t]) > 1

\* The Function: instruction 0 defines v1 (and v2), v1 in any register, in the
\* first Int register, or in any register while it clobbers the first Int
\* register; the middle instructions are as `mid` says, and the last
\* instruction uses the running value and v2.
Function(e, d1, mid, u2, v2) ==
    LET r0 == e.preferred_regs_by_class["Int"][1]
        r1 == e.non_preferred_regs_by_class["Int"][1]
        v1r == VReg_new(1, "Int").val
        v2r == VReg_new(2, v2.class).val
        v2fixed == e.preferred_regs_by_class[v2.class][1]
    IN  Both([num_insts |-> NumInsts,
         inst_operands |-> [i \in Insts |->
            IF i = 0
            THEN <<IF d1 = "Fixed" THEN Operand_reg_fixed_def(v1r, r0)
                                   ELSE Operand_reg_def(v1r)>>
                 \o (IF v2.def THEN <<Operand_reg_def(v2r)>> ELSE <<>>)
            ELSE IF i = LastInst
            THEN <<UseOp(CurVReg(mid, i), u2, r1), UseOp(v2r, v2.use, v2fixed)>>
            ELSE CASE mid[i].kind = "plain" ->
                        IF mid[i].use = "none" THEN <<>>
                        ELSE <<UseOp(CurVReg(mid, i), mid[i].use, r0)>>
                   [] mid[i].kind = "reuse" ->
                        <<Operand_reg_use(CurVReg(mid, i)),
                          Operand_reg_reuse_def(ReuseVReg(i), 0)>>
                   [] mid[i].kind = "move" -> MoveOps(mid, i)
                   [] OTHER -> <<>>],
         is_move |-> [i \in Insts |->
            IF i \in Middles /\ mid[i].kind = "move"
            THEN Some(MoveOps(mid, i)) ELSE NoneOpt],
         inst_clobbers |-> [i \in Insts |->
            IF \/ i \in Middles /\ mid[i].kind = "clobber"
               \/ i = 0 /\ d1 = "Clobber"
            THEN {r0} ELSE {}],
         requires_refs_on_stack |-> [i \in Insts |->
            i \in Middles /\ mid[i].kind = "safepoint"],
         reftype_vregs |->
            {v \in {v1r, v2r} : \E i \in Middles :
                /\ mid[i].kind = "safepoint"
                /\ VReg_vreg(v) \in mid[i].refs},
         spillslot_size |-> [c \in RegClass |-> 1]],
             CFG(OneBlock, [b \in {0} |-> {}], [tag |-> "wellformed"]))

\* A Function of one instruction per block whose control flow is g: with
\* body "empty" no instruction has an operand; otherwise instruction 0
\* defines v1 and the instruction before the last one uses it, as an
\* argument that is no block parameter ("arg") or as a block-parameter
\* argument although no block has parameters ("blockarg"), or defines v1
\* a second time ("redef").
ShapedFunction(g, body) ==
    LET v1r == VReg_new(1, "Int").val
    IN  Both([num_insts |-> NumInsts,
         inst_operands |-> [i \in Insts |->
            IF body = "empty" THEN <<>>
            ELSE IF i = 0 THEN <<Operand_reg_def(v1r)>>
            ELSE IF i = LastInst - 1
            THEN <<IF body = "redef" THEN Operand_reg_def(v1r)
                                     ELSE Operand_reg_use(v1r)>>
            ELSE <<>>],
         is_move |-> [i \in Insts |-> NoneOpt],
         inst_clobbers |-> [i \in Insts |-> {}],
         requires_refs_on_stack |-> [i \in Insts |-> FALSE],
         reftype_vregs |-> {},
         spillslot_size |-> [c \in RegClass |-> 1]],
             [g EXCEPT !.branch_blockparam_arg_offset =
                [i \in Insts |-> IF body = "arg" /\ i = LastInst - 1
                                 THEN 1 ELSE 0]])

\* the functions run() is given: every body as one block, the empty body
\* under every control flow, the bodies with a branch operand as a
\* chain of blocks and wherever the branch enters a block of several
\* predecessors
Functions(e) ==
    {Function(e, d1, mid, u2, v2) :
        d1 \in {"Reg", "Fixed", "Clobber"}, mid \in [Middles -> MiddleFlavors],
        u2 \in {"Reg", "Any", "Fixed"}, v2 \in V2Specs}
    \cup {ShapedFunction(g, "empty") : g \in CFGs}
    \cup {ShapedFunction(g, body) :
            g \in {h \in CFGs : IsChain(h) \/ BranchEntersJoin(h, LastInst - 1)},
            body \in {"arg", "blockarg", "redef"}}

-----------------------------------------------------------------------------
(* run(): liveness / SSA analysis *)

\* Result<Output, RegAllocError>
Err(e) == [ok |-> FALSE, err |-> e]

\* the operands of f, decoded, each with the program point it is at
Operands(f) ==
    UNION {{LET o == f.inst_operands[i][k]
            IN  [inst |-> i, k |-> k, op |-> o,
                 vreg |-> Operand_vreg(o).val,
                 kind |-> Operand_kind(o).val,
                 constraint |-> Operand_constraint(o).val,
                 pt |-> ProgPoint_to_index(
                           IF Operand_pos(o) = "Early" THEN ProgPoint_before(Inst_new(i))
                           ELSE ProgPoint_after(Inst_new(i)))] :
            k \in 1..Len(f.inst_operands[i])} : i \in 0..(f.num_insts - 1)}

Min(S) == CHOOSE x \in S : \A y \in S : x <= y

Max(S) == CHOOSE x \in S : \A y \in S : y <= x

Defs(ops, v) == {o \in ops : o.vreg = v /\ o.kind = "Def"}

\* the validation of the analysis: NoneOpt, or the error it rejects f with
Validate(ops) ==
    LET vregs == {o.vreg : o \in ops}
        multi == {o \in ops : o.kind = "Def" /\
                     \E d \in Defs(ops, o.vreg) : d.inst < o.inst \/
                                                   (d.inst = o.inst /\ d.k < o.k)}
        undefd == {v \in vregs : Defs(ops, v) = {}}
    IN  IF multi # {}
        THEN LET o == CHOOSE o \in multi :
                        \A q \in multi : o.inst < q.inst \/
                                         (o.inst = q.inst /\ o.k <= q.k)
             IN  Some([kind |-> "SSA", vreg |-> o.vreg, inst |-> o.inst])
        ELSE IF undefd # {} THEN Some([kind |-> "EntryLivein"])
        ELSE NoneOpt

RECURSIVE ParamCount(_, _)
\* the sum of the blockparam counts of the blocks of slice q
ParamCount(f, q) ==
    IF q = <<>> THEN 0
    ELSE Len(f.block_params[Head(q)]) + ParamCount(f, Tail(q))

\* CritEdgeDefects looking at the successors of the source only
CritEdgeDefects_of_any_fork(f) ==
    {d \in [kind : {"CritEdge"}, from : DOMAIN f.block_insns,
                                 to : DOMAIN f.block_insns] :
        /\ d.to \in Elems(f.block_succs[d.from])
        /\ Len(f.block_succs[d.from]) > 1}

\* the un-split critical edges: from a block of several successors to a
\* block of several predecessors
CritEdgeDefects(f) ==
    {d \in [kind : {"CritEdge"}, from : DOMAIN f.block_insns,
                                 to : DOMAIN f.block_insns] :
        /\ d.to \in Elems(f.block_succs[d.from])
        /\ Len(f.block_succs[d.from]) > 1
        /\ Len(f.block_preds[d.to]) > 1}

\* the control-flow errors the analysis rejects f with
CFGDefects(f) ==
    LET blocks == DOMAIN f.block_insns
        last(b) == f.block_insns[b].to - 1
    IN  CritEdgeDefects(f)
        \cup
        {[kind |-> "BB", block |-> b] :
            b \in {c \in blocks :
                \/ ~ (f.is_ret[last(c)] \/ f.is_branch[last(c)])
                \/ \E i \in f.block_insns[c].from..(last(c) - 1) :
                      f.is_ret[i] \/ f.is_branch[i]}}
        \cup
        {[kind |-> "Branch", inst |-> i] :
            i \in {j \in 0..(f.num_insts - 1) :
                /\ f.is_branch[j]
                /\ Len(f.inst_operands[j]) - f.branch_blockparam_arg_offset[j]
                      # ParamCount(f, f.block_succs[BlockOf(f, j)])}}
        \cup
        {[kind |-> "DisallowedBranchArg", inst |-> i] :
            i \in {j \in 0..(f.num_insts - 1) :
                /\ f.branch_blockparam_arg_offset[j] > 0
                /\ BranchEntersJoin(f, j)}}

\* Defects with the control flow left unvalidated
Defects_operands_only(f) ==
    LET bad == Validate(Operands(f)) IN IF bad.some THEN {bad.val} ELSE {}

\* every error the analysis may reject f with
Defects(f) ==
    CFGDefects(f) \cup
    (LET bad == Validate(Operands(f)) IN IF bad.some THEN {bad.val} ELSE {})

\* the live range of a vreg: from its def to its last use
VRange(ops, v) ==
    [from |-> Min({o.pt : o \in Defs(ops, v)}),
     to |-> Max({o.pt : o \in {q \in ops : q.vreg = v}})]

RECURSIVE Root(_, _)
\* the vreg whose bundle v is fused into: a Reuse(idx) def joins the bundle
\* of the idx'th operand of its instruction
Root(ops, v) ==
    LET d == CHOOSE d \in Defs(ops, v) : TRUE
    IN  IF d.constraint.tag = "Reuse"
        THEN LET u == CHOOSE u \in ops :
                        u.inst = d.inst /\ u.k = d.constraint.idx + 1
             IN  Root(ops, u.vreg)
        ELSE v

\* A bundle is [id, from, to]: the points from..to of the fused live range
\* whose root vreg has number id.
Overlap(a, b) == a.from <= b.to /\ b.from <= a.to

\* everything the allocation core needs to know about f
Liveness(f, e) ==
    LET ops == Operands(f)
        vregs == {o.vreg : o \in ops}
        root == [v \in vregs |-> VReg_vreg(Root(ops, v))]
        ids == {root[v] : v \in vregs}
        range == [n \in ids |->
            [from |-> Min({VRange(ops, v).from : v \in {w \in vregs : root[w] = n}}),
             to |-> Max({VRange(ops, v).to : v \in {w \in vregs : root[w] = n}})]]
        fixed == {[bundle |-> [id |-> root[o.vreg], from |-> o.pt,
                               to |-> IF o.pt % 2 = 0 /\ o.pt < range[root[o.vreg]].to
                                      THEN o.pt + 1 ELSE o.pt],
                   loc |-> [kind |-> "reg", preg |-> o.constraint.preg],
                   fixed |-> TRUE] :
                  o \in {q \in ops : q.constraint.tag = "FixedReg"}}
    IN  [ops |-> {[inst |-> o.inst, k |-> o.k, op |-> o.op,
                   vreg |-> o.vreg, id |-> root[o.vreg],
                   kind |-> o.kind, constraint |-> o.constraint, pt |-> o.pt] :
                  o \in ops},
         ids |-> ids,
         class |-> [n \in ids |->
            VReg_class(CHOOSE v \in vregs : VReg_vreg(v) = n)],
         range |-> range,
         \* where a live reference-typed vreg has to be on the stack
         stackpts |->
            {s \in [id : ids, vreg : f.reftype_vregs \cap vregs,
                    inst : {j \in 0..(f.num_insts - 1) : f.requires_refs_on_stack[j]},
                    pt : 0..(2 * f.num_insts)] :
                /\ s.id = root[s.vreg]
                /\ s.pt \in {ProgPoint_to_index(ProgPoint_before(Inst_new(s.inst))),
                             ProgPoint_to_index(ProgPoint_after(Inst_new(s.inst)))}
                /\ VRange(ops, s.vreg).from <= s.pt
                /\ s.pt <= VRange(ops, s.vreg).to},
         \* a clobbered register is taken at the point after the instruction
         clobbers |->
            UNION {{[pt |-> ProgPoint_to_index(ProgPoint_after(Inst_new(i))), preg |-> p] :
                    p \in f.inst_clobbers[i]} : i \in 0..(f.num_insts - 1)},
         fixed |-> fixed,
         index |-> [p \in e.regs |-> PReg_index(p)]]

\* the bundles left of the live ranges once the FixedReg operands have
\* reserved their registers
InitialQueue(lv) ==
    UNION {LET free == {p \in lv.range[n].from..lv.range[n].to :
                          \A x \in lv.fixed : x.bundle.id = n =>
                              ~ (x.bundle.from <= p /\ p <= x.bundle.to)}
           IN  {c \in [id : {n}, from : free, to : free] :
                   /\ c.from <= c.to
                   /\ \A p \in c.from..c.to : p \in free
                   /\ (c.from - 1) \notin free
                   /\ (c.to + 1) \notin free} : n \in lv.ids}

\* the state run() is entered in; no step of run() depends on the build
InitAlloc ==
    /\ debug_assertions = FALSE
    /\ preg = NoVal /\ vreg = NoVal /\ vregargs = NoVal
    /\ slot = NoVal /\ slotargs = NoVal
    /\ operand = NoVal /\ opargs = NoVal
    /\ alloc = NoVal /\ allocargs = NoVal
    /\ point = NoVal /\ pointargs = NoVal /\ instarg = NoVal
    /\ call = "run" /\ ret = NoVal
    /\ env \in MachineEnvs
    /\ func \in Functions(env)
    /\ phase = "analysis"
    /\ liveness = NoVal
    /\ queue = {}
    /\ assigned = {}
    /\ result = NoVal

\* The analysis: a malformed Function ends the call with one of its errors
\* (which one, if it has several, is not specified); otherwise
\* the FixedReg operands reserve their registers and the bundles are queued.
Analyze ==
    /\ phase = "analysis"
    /\ LET bad == Defects(func)
       IN  IF bad # {}
           THEN /\ \E e \in bad : result' = Err(e)
                /\ phase' = "done"
                /\ UNCHANGED <<liveness, queue, assigned>>
           ELSE LET lv == Liveness(func, env)
                IN  /\ liveness' = lv
                    /\ assigned' = lv.fixed
                    /\ queue' = InitialQueue(lv)
                    /\ phase' = "allocating"
                    /\ UNCHANGED result
    /\ UNCHANGED <<debug_assertions, held, call, ret, func, env>>

-----------------------------------------------------------------------------
(* run(): the backtracking allocation core *)

\* the operands that lie in bundle b
OpsIn(b) ==
    {o \in liveness.ops : o.id = b.id /\ b.from <= o.pt /\ o.pt <= b.to}

\* b holds an operand that has to be in a register
NeedsReg(b) ==
    \E o \in OpsIn(b) : o.constraint.tag \in {"Reg", "Reuse", "FixedReg"}

\* NeedsStack without the references at safepoints
NeedsStack_operands_only(b) ==
    \E o \in OpsIn(b) : o.constraint.tag = "Stack"

\* b holds an operand, or a reference at a safepoint, that has to be on the
\* stack
NeedsStack(b) ==
    \/ \E o \in OpsIn(b) : o.constraint.tag = "Stack"
    \/ \E s \in liveness.stackpts :
            s.id = b.id /\ b.from <= s.pt /\ s.pt <= b.to

\* the committed bundles whose intervals on p's entry of the per-register
\* table overlap b
Blockers(b, p) ==
    {a \in assigned :
        /\ a.loc.kind = "reg"
        /\ liveness.index[a.loc.preg] = liveness.index[p]
        /\ Overlap(a.bundle, b)}

\* an instruction within b clobbers p
Clobbered(b, p) ==
    \E c \in liveness.clobbers :
        /\ liveness.index[c.preg] = liveness.index[p]
        /\ b.from <= c.pt /\ c.pt <= b.to

\* CanPlace without the look at the intervals committed to p
CanPlace_unchecked(b, p) ==
    /\ ~ NeedsStack(b)
    /\ ~ Clobbered(b, p)

\* placement succeeds if b overlaps no interval already committed to p
CanPlace(b, p) ==
    /\ ~ NeedsStack(b)
    /\ ~ Clobbered(b, p)
    /\ Blockers(b, p) = {}

\* the allocatable registers of b's class in the order they are tried:
\* preferred, then non-preferred
RegOrder(b) ==
    env.preferred_regs_by_class[liveness.class[b.id]]
    \o env.non_preferred_regs_by_class[liveness.class[b.id]]

Placeable(b) == \E i \in 1..Len(RegOrder(b)) : CanPlace(b, RegOrder(b)[i])

BundleLen(b) == b.to - b.from + 1

\* Outranks without the priorities: any bundle may evict any other
Outranks_always(b, c) == TRUE

\* b is of higher priority than c: it costs more to spill for its size
Outranks(b, c) ==
    \/ NeedsReg(b) /\ ~ NeedsReg(c)
    \/ (NeedsReg(b) <=> NeedsReg(c)) /\ BundleLen(b) < BundleLen(c)

\* b can take p from the bundles committed to it
CanEvict(b, p) ==
    /\ ~ NeedsStack(b)
    /\ ~ Clobbered(b, p)
    /\ Blockers(b, p) # {}
    /\ \A a \in Blockers(b, p) : ~ a.fixed /\ Outranks(b, a.bundle)

\* the points b can be split at: before an instruction, inside b
SplitPoints(b) ==
    {ProgPoint_to_index(ProgPoint_before(Inst_new(i))) : i \in 0..(func.num_insts - 1)}
    \cap ((b.from + 1)..b.to)

Commit(b, loc) == [bundle |-> b, loc |-> loc, fixed |-> FALSE]

\* b is committed to the first register in order that is free over b
Place(b) ==
    /\ phase = "allocating"
    /\ b \in queue
    /\ Placeable(b)
    /\ LET i == Min({j \in 1..Len(RegOrder(b)) : CanPlace(b, RegOrder(b)[j])})
       IN  assigned' = assigned \cup
                {Commit(b, [kind |-> "reg", preg |-> RegOrder(b)[i]])}
    /\ queue' = queue \ {b}
    /\ UNCHANGED <<debug_assertions, held, call, ret, func, env, phase,
                   liveness, result>>

\* b takes p from lower-priority bundles, which are retried later
Evict(b, p) ==
    /\ phase = "allocating"
    /\ b \in queue
    /\ ~ Placeable(b)
    /\ p \in Range(RegOrder(b))
    /\ CanEvict(b, p)
    /\ assigned' = (assigned \ Blockers(b, p))
                   \cup {Commit(b, [kind |-> "reg", preg |-> p])}
    /\ queue' = (queue \ {b}) \cup {a.bundle : a \in Blockers(b, p)}
    /\ UNCHANGED <<debug_assertions, held, call, ret, func, env, phase,
                   liveness, result>>

\* b is split at a program point into two sub-bundles, both requeued
Split(b, at) ==
    /\ phase = "allocating"
    /\ b \in queue
    /\ ~ Placeable(b)
    /\ at \in SplitPoints(b)
    /\ queue' = (queue \ {b})
                \cup {[b EXCEPT !.to = at - 1], [b EXCEPT !.from = at]}
    /\ UNCHANGED <<debug_assertions, held, call, ret, func, env, phase,
                   liveness, assigned, result>>

\* b is assigned a stack slot
Spill(b) ==
    /\ phase = "allocating"
    /\ b \in queue
    /\ ~ Placeable(b)
    /\ ~ NeedsReg(b)
    /\ assigned' = assigned \cup {Commit(b, [kind |-> "stack"])}
    /\ queue' = queue \ {b}
    /\ UNCHANGED <<debug_assertions, held, call, ret, func, env, phase,
                   liveness, result>>

\* b needs a register and neither eviction nor a split can give it one
Fail(b) ==
    /\ phase = "allocating"
    /\ b \in queue
    /\ ~ Placeable(b)
    /\ NeedsReg(b)
    /\ SplitPoints(b) = {}
    /\ ~ \E p \in Range(RegOrder(b)) : CanEvict(b, p)
    /\ result' = Err([kind |-> "TooManyLiveRegs"])
    /\ phase' = "done"
    /\ UNCHANGED <<debug_assertions, held, call, ret, func, env,
                   liveness, queue, assigned>>

-----------------------------------------------------------------------------
(* run(): move resolution and output assembly *)

RECURSIVE Ascending(_)
\* the numbers of S in ascending order
Ascending(S) ==
    IF S = {} THEN <<>> ELSE <<Min(S)>> \o Ascending(S \ {Min(S)})

RECURSIVE SlotsBelow(_, _)
\* the spill slots taken by the spilled bundles with ids in S
SlotsBelow(S, lv) ==
    IF S = {} THEN 0
    ELSE func.spillslot_size[lv.class[Min(S)]] + SlotsBelow(S \ {Min(S)}, lv)

\* the ids of the live ranges that have a spilled part
SpilledIds(asg) == {a.bundle.id : a \in {x \in asg : x.loc.kind = "stack"}}

\* the one spill slot of live range n
SlotOf(asg, lv, n) ==
    SpillSlot_new(SlotsBelow({m \in SpilledIds(asg) : m < n}, lv), lv.class[n]).val

\* the Allocation of a committed or spilled bundle
AllocOf(asg, lv, a) ==
    IF a.loc.kind = "reg" THEN Allocation_reg(a.loc.preg).val
    ELSE Allocation_stack(SlotOf(asg, lv, a.bundle.id)).val

\* the part of live range n that covers point pt
PartAt(asg, n, pt) ==
    CHOOSE a \in asg : a.bundle.id = n /\ a.bundle.from <= pt /\ pt <= a.bundle.to

\* the allocations of the operands of instruction i
InstAllocs(asg, lv, i) ==
    [k \in 1..Len(func.inst_operands[i]) |->
        LET o == CHOOSE o \in lv.ops : o.inst = i /\ o.k = k
        IN  AllocOf(asg, lv, PartAt(asg, o.id, o.pt))]

RECURSIVE AllocsFrom(_, _, _)
\* Output::allocs from instruction i on
AllocsFrom(asg, lv, i) ==
    IF i >= func.num_insts THEN <<>>
    ELSE InstAllocs(asg, lv, i) \o AllocsFrom(asg, lv, i + 1)

RECURSIVE OperandsBefore(_)
OperandsBefore(i) ==
    IF i = 0 THEN 0 ELSE OperandsBefore(i - 1) + Len(func.inst_operands[i - 1])

\* Edit::Move
Move(from, to, to_vreg) ==
    [tag |-> "Move", from |-> from, to |-> to, to_vreg |-> to_vreg]

\* the moves needed at point pt: a live range whose allocation differs
\* between the part ending before pt and the part starting at pt
MovesAt(asg, lv, pt) ==
    {m \in [id : lv.ids,
            from : {AllocOf(asg, lv, a) : a \in asg},
            to : {AllocOf(asg, lv, a) : a \in asg}] :
        \E a \in asg, b \in asg :
            /\ a.bundle.id = m.id /\ b.bundle.id = m.id
            /\ a.bundle.to + 1 = pt /\ b.bundle.from = pt
            /\ m.from = AllocOf(asg, lv, a) /\ m.to = AllocOf(asg, lv, b)
            /\ m.from # m.to}

\* MoveVia without the hop: one Move whatever the two ends are
MoveVia_direct(from, to, to_vreg, via) == <<Move(from, to, to_vreg)>>

\* The edits of one move: a Move is never emitted between two stack
\* allocations; if both ends are stack it hops through the register `via`.
MoveVia(from, to, to_vreg, via) ==
    IF Allocation_kind(from) = Ok("Stack") /\ Allocation_kind(to) = Ok("Stack")
    THEN <<Move(from, via, NoneOpt), Move(via, to, to_vreg)>>
    ELSE <<Move(from, to, to_vreg)>>

\* the scratch register of the class of live range n, as an Allocation
ScratchOf(lv, n) == Allocation_reg(env.scratch_by_class[lv.class[n]]).val

\* The edits of a move instruction i: its source is copied to its
\* destination after the instruction, the destination vreg attached, also
\* when the two allocations coincide.
MoveInstEdits(asg, lv, i) ==
    IF ~ func.is_move[i].some THEN <<>>
    ELSE LET src == CHOOSE o \in lv.ops :
                        o.inst = i /\ o.op = func.is_move[i].val[1]
             dst == CHOOSE o \in lv.ops :
                        o.inst = i /\ o.op = func.is_move[i].val[2]
         IN  MoveVia(AllocOf(asg, lv, PartAt(asg, src.id, src.pt)),
                     AllocOf(asg, lv, PartAt(asg, dst.id, dst.pt)),
                     Some(dst.vreg), ScratchOf(lv, dst.id))

RECURSIVE Sequentialize(_, _)
\* The parallel moves M in an order that overwrites no source still to be
\* read; a permutation cycle is broken through the scratch register of the
\* class.
Sequentialize(M, lv) ==
    IF M = {} THEN <<>>
    ELSE LET free == {m \in M : \A q \in M \ {m} : q.from # m.to}
         IN  IF free # {}
             THEN LET m == CHOOSE m \in free : \A q \in free : m.id <= q.id
                  IN  MoveVia(m.from, m.to, NoneOpt, ScratchOf(lv, m.id))
                      \o Sequentialize(M \ {m}, lv)
             ELSE LET m == CHOOSE m \in M : \A q \in M : m.id <= q.id
                      scratch == ScratchOf(lv, m.id)
                  IN  <<Move(m.from, scratch, NoneOpt)>>
                      \o Sequentialize((M \ {m}) \cup {[m EXCEPT !.from = scratch]}, lv)

RECURSIVE EditsFrom(_, _, _)
\* Output::edits from instruction i on: the moves between sub-ranges go
\* before the instruction, the edits of a move instruction after it
EditsFrom(asg, lv, i) ==
    IF i >= func.num_insts THEN <<>>
    ELSE LET moves == Sequentialize(
                        MovesAt(asg, lv, ProgPoint_to_index(ProgPoint_before(Inst_new(i)))), lv)
             copy == MoveInstEdits(asg, lv, i)
         IN  [j \in 1..Len(moves) |->
                [point |-> ProgPoint_before(Inst_new(i)), edit |-> moves[j]]]
             \o [j \in 1..Len(copy) |->
                [point |-> ProgPoint_after(Inst_new(i)), edit |-> copy[j]]]
             \o EditsFrom(asg, lv, i + 1)

RECURSIVE SafepointSlotsFrom(_, _, _)
\* Output::safepoint_slots from instruction i on: the slot of every live
\* reference-typed vreg at a safepoint
SafepointSlotsFrom(asg, lv, i) ==
    IF i >= func.num_insts THEN <<>>
    ELSE LET before == ProgPoint_to_index(ProgPoint_before(Inst_new(i)))
             refs == {s.id : s \in {x \in lv.stackpts :
                         /\ x.inst = i /\ x.pt = before
                         /\ PartAt(asg, x.id, before).loc.kind = "stack"}}
             ids == Ascending(refs)
         IN  [j \in 1..Len(ids) |->
                [point |-> ProgPoint_before(Inst_new(i)), slot |-> SlotOf(asg, lv, ids[j])]]
             \o SafepointSlotsFrom(asg, lv, i + 1)

\* the Output of a finished allocation
Output(asg, lv) ==
    [num_spillslots |-> SlotsBelow(SpilledIds(asg), lv),
     edits |-> EditsFrom(asg, lv, 0),
     allocs |-> AllocsFrom(asg, lv, 0),
     inst_alloc_offsets |-> [j \in 1..func.num_insts |-> OperandsBefore(j - 1)],
     safepoint_slots |-> SafepointSlotsFrom(asg, lv, 0)]

\* every bundle is committed or spilled: run() returns the Output
Assemble ==
    /\ phase = "allocating"
    /\ queue = {}
    /\ result' = Ok(Output(assigned, liveness))
    /\ phase' = "done"
    /\ UNCHANGED <<debug_assertions, held, call, ret, func, env,
                   liveness, queue, assigned>>

\* one turn of the allocation loop: a bundle of the work queue is handled
AllocTurn ==
    \/ \E b \in queue : Place(b)
    \/ \E b \in queue, p \in env.regs : Evict(b, p)
    \/ \E b \in queue, at \in 0..(2 * NumInsts) : Split(b, at)
    \/ \E b \in queue : Spill(b)
    \/ \E b \in queue : Fail(b)

NextAlloc ==
    \/ Analyze
    \/ AllocTurn
    \/ Assemble

SpecAlloc == InitAlloc /\ [][NextAlloc]_vars

\* run() is one synchronous call: while the allocation loop can take a turn,
\* it takes one
SpecAllocFair == InitAlloc /\ [][NextAlloc]_vars /\ WF_vars(AllocTurn)

-----------------------------------------------------------------------------
(* Claims on the encodings *)

\* every PReg that PReg::new accepts
AllPRegs == {[hw_enc |-> h, class |-> c] : h \in 0..PReg_MAX, c \in RegClass}

\* C1: PReg::from_index(PReg::new(h, c).index()) returns PReg::new(h, c), for
\* every hardware encoding and both classes.
C1_FromIndexInvertsIndex ==
    call = "PReg::from_index" => ret = Ok(preg)

\* C2: PReg::index() is 64 * class + hw_enc: below PReg::MAX_INDEX, and the
\* index of no other PReg.
C2_IndexIsClassAboveHwEnc ==
    call = "PReg::index" =>
        /\ ret.val = 64 * ClassNum(preg.class) + preg.hw_enc
        /\ ret.val < PReg_MAX_INDEX
        /\ \A q \in AllPRegs : q # preg => PReg_index(q) # ret.val

\* C3: as_reg() on Allocation::reg(p) is Some(p) and as_stack() on
\* Allocation::stack(s) is Some(s); as_reg() is None on a stack or none
\* allocation and as_stack() is None on a reg or none allocation.
C3_AllocationDecodesToItsArgument ==
    /\ call = "Allocation::as_reg" =>
          ret = Ok(IF allocargs.ctor = "reg" THEN Some(allocargs.preg) ELSE NoneOpt)
    /\ call = "Allocation::as_stack" =>
          ret = Ok(IF allocargs.ctor = "stack" THEN Some(allocargs.slot) ELSE NoneOpt)

\* C7: the accessors of an operand built by Operand::new return the vreg,
\* class, kind, position and constraint it was built from, and a decoded
\* FixedReg(p) has p's class equal to the operand's class.
C7_OperandAccessorsReturnInputs ==
    /\ call = "Operand::vreg" =>
          /\ ret = Ok(opargs.vreg)
          /\ VReg_vreg(ret.val) = opargs.virt_reg
    /\ call = "Operand::class" => ret = Ok(opargs.class)
    /\ call = "Operand::kind" => ret = Ok(opargs.kind)
    /\ call = "Operand::pos" => ret = Ok(opargs.pos)
    /\ call = "Operand::constraint" =>
          /\ ret = Ok(opargs.constraint)
          /\ ret.val.tag = "FixedReg" =>
                PReg_class(ret.val.preg) = Operand_class(operand)

\* C7 is exercised: a late Use of the highest vreg id, fixed to the highest
\* Float register, has been decoded.
C7_Witness ==
    /\ call = "Operand::constraint"
    /\ ret.ok
    /\ ret.val = FixedReg([hw_enc |-> PReg_MAX, class |-> "Float"])
    /\ opargs.virt_reg = VReg_MAX
    /\ opargs.kind = "Use"
    /\ opargs.pos = "Late"

\* C8: Allocation::from_bits(a.bits()) completes and returns an allocation
\* equal to a, with the same kind() and index().
C8_AllocationBitsRoundTrip ==
    call = "Allocation::from_bits" =>
        /\ ret.ok
        /\ ret.val = alloc
        /\ Allocation_kind(ret.val) = Allocation_kind(alloc)
        /\ Allocation_index(ret.val) = Allocation_index(alloc)

\* C9: Operand::from_bits(op.bits()) completes and returns an operand equal
\* to op, for every constraint Operand::new accepts.
C9_OperandBitsRoundTrip ==
    call = "Operand::from_bits" => ret = Ok(operand)

\* C10: Allocation::class() panics on the none allocation and only on it,
\* returns p.class() on Allocation::reg(p) and s.class() on
\* Allocation::stack(s).
C10_AllocationClass ==
    call = "Allocation::class" =>
        CASE allocargs.ctor = "none" -> ret = Panicked
          [] allocargs.ctor = "reg" -> ret = Ok(PReg_class(allocargs.preg))
          [] allocargs.ctor = "stack" -> ret = Ok(allocargs.class)

-----------------------------------------------------------------------------
(* Claims on run() *)

\* RegAllocError
DocumentedErrors ==
    {"CritEdge", "SSA", "BB", "Branch", "EntryLivein", "DisallowedBranchArg",
     "TooManyLiveRegs"}

\* the k'th allocation of an instruction satisfies the constraint of the
\* k'th operand o, as a client reads it off the Allocation
SatisfiesConstraint(o, allocs, k) ==
    LET c == Operand_constraint(o).val
        a == allocs[k]
    IN  CASE c.tag = "FixedReg" -> Allocation_as_reg(a) = Ok(Some(c.preg))
          [] c.tag = "Reg" -> /\ Allocation_kind(a) = Ok("Reg")
                              /\ Allocation_class(a) = Ok(Operand_class(o))
          [] c.tag = "Stack" -> Allocation_kind(a) = Ok("Stack")
          [] c.tag = "Reuse" -> a = allocs[c.idx + 1]
          [] c.tag = "Any" -> Allocation_kind(a) \in {Ok("Reg"), Ok("Stack")}

\* C4: run() returns a documented error, or an Output in which the Allocation
\* of every operand satisfies the operand's constraint: FixedReg(p) is in
\* exactly p, Reg in a register of the operand's class, Stack in a spill
\* slot, and a Reuse(idx) def in the Allocation of the idx'th operand.
C4_OperandsSatisfyConstraints ==
    phase = "done" =>
        IF result.ok
        THEN \A i \in 0..(func.num_insts - 1) :
                LET r == Output_inst_allocs(result.val, i)
                IN  /\ r.ok
                    /\ Len(r.val) = Len(func.inst_operands[i])
                    /\ \A k \in 1..Len(r.val) :
                          SatisfiesConstraint(func.inst_operands[i][k], r.val, k)
        ELSE result.err.kind \in DocumentedErrors

\* the committed bundles that are in a register
InReg == {a \in assigned : a.loc.kind = "reg"}

\* C5: at every program point each physical register holds at most one live
\* vreg (two bundles live at the same point are in different registers, and
\* so are two operands of different vregs at the same point of an
\* instruction), and a register clobbered by an instruction holds no value
\* at the point after it.
C5_RegistersHoldOneVReg ==
    /\ \A a \in InReg, b \in InReg :
          a # b /\ Overlap(a.bundle, b.bundle) =>
              Allocation_reg(a.loc.preg) # Allocation_reg(b.loc.preg)
    /\ \A a \in InReg :
          \A i \in 0..(func.num_insts - 1) : \A p \in func.inst_clobbers[i] :
              LET pt == ProgPoint_to_index(ProgPoint_after(Inst_new(i)))
              IN  a.bundle.from <= pt /\ pt <= a.bundle.to =>
                      Allocation_reg(a.loc.preg) # Allocation_reg(p)
    /\ phase = "done" /\ result.ok =>
          \A i \in 0..(func.num_insts - 1) :
              LET ops == func.inst_operands[i]
                  r == Output_inst_allocs(result.val, i).val
              IN  \A k \in 1..Len(ops), l \in 1..Len(ops) :
                      /\ Operand_vreg(ops[k]) # Operand_vreg(ops[l])
                      /\ Operand_pos(ops[k]) = Operand_pos(ops[l])
                      /\ Allocation_kind(r[k]) = Ok("Reg")
                      => r[k] # r[l]

\* two vregs of one class are in registers at the same program point, past an
\* instruction that clobbers a register, in an Output run() returned
C5_Witness ==
    /\ phase = "done" /\ result.ok
    /\ \E i \in 0..(func.num_insts - 1) : func.inst_clobbers[i] # {}
    /\ \E a \in InReg, b \in InReg :
          /\ a.bundle.id # b.bundle.id
          /\ a.loc.preg.class = b.loc.preg.class
          /\ ~ a.fixed /\ ~ b.fixed
          /\ Overlap(a.bundle, b.bundle)

\* the reference-typed vregs live at a point of instruction i, each with the
\* point
LiveRefs(i) ==
    LET ops == Operands(func)
    IN  {s \in [vreg : func.reftype_vregs \cap {o.vreg : o \in ops},
                pt : {ProgPoint_to_index(ProgPoint_before(Inst_new(i))),
                      ProgPoint_to_index(ProgPoint_after(Inst_new(i)))}] :
            /\ VRange(ops, s.vreg).from <= s.pt
            /\ s.pt <= VRange(ops, s.vreg).to}

\* C6: at every instruction that requires references on the stack, every
\* live reference-typed vreg is in a spill slot and not in a register, and
\* Output.safepoint_slots holds the instruction's program point with that
\* spill slot.
C6_ReferencesOnStackAtSafepoints ==
    phase = "done" /\ result.ok =>
        \A i \in 0..(func.num_insts - 1) :
            func.requires_refs_on_stack[i] =>
                \A s \in LiveRefs(i) :
                    LET id == VReg_vreg(Root(Operands(func), s.vreg))
                        parts == {a \in assigned :
                                    /\ a.bundle.id = id
                                    /\ a.bundle.from <= s.pt
                                    /\ s.pt <= a.bundle.to}
                    IN  /\ parts # {}
                        /\ \A a \in parts : a.loc.kind = "stack"
                        /\ \E j \in 1..Len(result.val.safepoint_slots) :
                              LET e == result.val.safepoint_slots[j]
                              IN  /\ e.point = ProgPoint_before(Inst_new(i))
                                  /\ SpillSlot_is_valid(e.slot)
                                  /\ SpillSlot_class(e.slot) = Ok(VReg_class(s.vreg))
                                  /\ e.slot = SlotOf(assigned, liveness, id)

\* run() returned an Output for a function with a safepoint that two
\* reference-typed vregs are live across, one of them used in a register
\* afterwards
C6_Witness ==
    /\ phase = "done" /\ result.ok
    /\ \E i \in 0..(func.num_insts - 1) :
          /\ func.requires_refs_on_stack[i]
          /\ Cardinality({s.vreg : s \in LiveRefs(i)}) = 2
          /\ Len(result.val.safepoint_slots) = 2
    /\ \E a \in InReg : ~ a.fixed

\* Allocation::is_stack, of an Allocation run() built
IsStackAlloc(a) == Allocation_kind(a) = Ok("Stack")

\* the edits of Output out at the point after move instruction i take the
\* value from stack slot `from` into a register and from there to slot `to`
HopsAt(out, i, from, to) ==
    \E j \in 1..(Len(out.edits) - 1) :
        /\ out.edits[j].point = ProgPoint_after(Inst_new(i))
        /\ out.edits[j + 1].point = ProgPoint_after(Inst_new(i))
        /\ out.edits[j].edit.from = from
        /\ Allocation_kind(out.edits[j].edit.to) = Ok("Reg")
        /\ out.edits[j + 1].edit.from = out.edits[j].edit.to
        /\ out.edits[j + 1].edit.to = to

\* C11: Output.edits is sorted in non-decreasing program-point order, no
\* Move in it goes from a stack allocation to a stack allocation, and a move
\* instruction whose source and destination are both on the stack is done by
\* a Move into a register followed by a Move out of it.
C11_EditsSortedNoStackToStack ==
    phase = "done" /\ result.ok =>
        LET out == result.val
        IN  /\ \A j \in 1..(Len(out.edits) - 1) :
                  ProgPoint_to_index(out.edits[j].point)
                      <= ProgPoint_to_index(out.edits[j + 1].point)
            /\ \A j \in 1..Len(out.edits) :
                  out.edits[j].edit.tag = "Move" =>
                      ~ (IsStackAlloc(out.edits[j].edit.from)
                         /\ IsStackAlloc(out.edits[j].edit.to))
            /\ \A i \in 0..(func.num_insts - 1) :
                  LET r == Output_inst_allocs(out, i).val
                  IN  (/\ func.is_move[i].some
                       /\ IsStackAlloc(r[1]) /\ IsStackAlloc(r[2])
                       /\ r[1] # r[2])
                      => HopsAt(out, i, r[1], r[2])

\* run() returned an Output with edits at several program points, among them
\* the two hops of a move instruction between two stack slots
C11_Witness ==
    /\ phase = "done" /\ result.ok
    /\ \E j \in 1..Len(result.val.edits), k \in 1..Len(result.val.edits) :
          ProgPoint_to_index(result.val.edits[j].point)
              < ProgPoint_to_index(result.val.edits[k].point)
    /\ \E i \in 0..(func.num_insts - 1) :
          LET r == Output_inst_allocs(result.val, i).val
          IN  /\ func.is_move[i].some
              /\ IsStackAlloc(r[1]) /\ IsStackAlloc(r[2])
              /\ HopsAt(result.val, i, r[1], r[2])

\* the points of live range n that the parts in S cover
Covered(S, n) ==
    UNION {a.bundle.from..a.bundle.to : a \in {x \in S : x.bundle.id = n}}

\* a step that splits bundle b of the queue into the two bundles lo and hi
IsSplit(b, lo, hi) ==
    /\ b \in queue /\ b \notin queue'
    /\ lo.id = b.id /\ hi.id = b.id
    /\ lo.from = b.from /\ hi.to = b.to /\ lo.to + 1 = hi.from
    /\ {lo, hi} \subseteq queue'
    /\ assigned' = assigned

ScratchAllocs ==
    {Allocation_reg(env.scratch_by_class[c]).val : c \in RegClass}

\* C13: the scratch register of each class holds no vreg's value across an
\* instruction boundary: no operand Allocation is a scratch register, and in
\* Output.edits a scratch register is written only by a Move that is followed
\* at the same program point by the Move that reads it, and read only by a
\* Move that follows such a write at the same point.
C13_ScratchHoldsNoValue ==
    phase = "done" /\ result.ok =>
        LET out == result.val
            n == Len(out.edits)
        IN  /\ \A j \in 1..Len(out.allocs) : out.allocs[j] \notin ScratchAllocs
            /\ \A j \in 1..n :
                  out.edits[j].edit.to \in ScratchAllocs =>
                      \E k \in (j + 1)..n :
                          /\ out.edits[k].point = out.edits[j].point
                          /\ out.edits[k].edit.from = out.edits[j].edit.to
                          /\ \A l \in (j + 1)..(k - 1) :
                                out.edits[l].edit.to # out.edits[j].edit.to
            /\ \A k \in 1..n :
                  out.edits[k].edit.from \in ScratchAllocs =>
                      \E j \in 1..(k - 1) :
                          /\ out.edits[j].point = out.edits[k].point
                          /\ out.edits[j].edit.to = out.edits[k].edit.from

\* the structural errors of RegAllocError
StructuralErrors ==
    {"CritEdge", "SSA", "BB", "Branch", "EntryLivein", "DisallowedBranchArg"}

\* the edges of f from a block of several successors to a block of several
\* predecessors
CritEdges(f) ==
    {d \in [from : DOMAIN f.block_insns, to : DOMAIN f.block_insns] :
        /\ \E k \in 1..Len(f.block_succs[d.from]) : f.block_succs[d.from][k] = d.to
        /\ Len(f.block_succs[d.from]) > 1
        /\ Len(f.block_preds[d.to]) > 1}

\* C14: a structural error is returned by the step that analyses the
\* Function, with no bundle placed, evicted, split or spilled before it; a
\* Function with a critical edge, a block without terminator or a vreg
\* defined twice or never gets no further than the analysis; and once the
\* analysis has succeeded run() returns Ok(Output) or TooManyLiveRegs.
C14_ErrorPhasesOrdered ==
    /\ [][result' # result /\ ~ result'.ok =>
            IF result'.err.kind \in StructuralErrors
            THEN /\ phase = "analysis"
                 /\ liveness = NoVal /\ assigned = {} /\ queue = {}
                 /\ UNCHANGED <<liveness, assigned, queue>>
            ELSE /\ phase = "allocating"
                 /\ result'.err.kind = "TooManyLiveRegs"]_vars
    /\ [](phase = "done" =>
            \/ result.ok /\ liveness # NoVal
            \/ ~ result.ok /\ result.err.kind \in StructuralErrors /\ liveness = NoVal
            \/ ~ result.ok /\ result.err.kind = "TooManyLiveRegs" /\ liveness # NoVal)
    /\ [](liveness # NoVal =>
            /\ CritEdges(func) = {}
            /\ \A b \in DOMAIN func.block_insns :
                  LET i == func.block_insns[b].to - 1
                  IN  func.is_ret[i] \/ func.is_branch[i]
            /\ \A i \in Insts : \A k \in 1..Len(func.inst_operands[i]) :
                  LET v == Operand_vreg(func.inst_operands[i][k]).val
                  IN  Cardinality(
                        {d \in [inst : Insts, k : 1..2] :
                            /\ d.k <= Len(func.inst_operands[d.inst])
                            /\ Operand_vreg(func.inst_operands[d.inst][d.k]).val = v
                            /\ Operand_kind(func.inst_operands[d.inst][d.k]).val = "Def"})
                      = 1)

\* a Function with a critical edge and a misplaced branch argument has been
\* rejected by the analysis
C14_Witness ==
    /\ phase = "done" /\ ~ result.ok
    /\ result.err.kind = "DisallowedBranchArg"
    /\ CritEdges(func) # {}
    /\ liveness = NoVal /\ assigned = {} /\ queue = {}

\* the errors that report the structural defects of f other than a
\* critical edge
OtherDefects(f) == {d.kind : d \in Defects(f)} \ {"CritEdge"}

-----------------------------------------------------------------------------
(* Claims on ProgPoint *)

\* the instruction after inst
InstAfter(inst) == [bits |-> Inc(inst.bits)]

\* C17: for the instruction index i a point was built from, i and i + 1
\* being indices of instructions, before(i) < after(i) < before(i + 1), and
\* next() of the point is after(i) if it is before(i) and before(i + 1) if
\* it is after(i).
C17_ProgPointsOrdered ==
    pointargs # NoVal
    /\ pointargs.inst # Inst_invalid
    /\ InstAfter(pointargs.inst) # Inst_invalid =>
        LET i == pointargs.inst
        IN  /\ ProgPoint_lt(ProgPoint_before(i), ProgPoint_after(i))
            /\ ProgPoint_lt(ProgPoint_after(i), ProgPoint_before(InstAfter(i)))
            /\ call = "ProgPoint::next" =>
                  ret = Ok(IF pointargs.pos = "Before" THEN ProgPoint_after(i)
                           ELSE ProgPoint_before(InstAfter(i)))

\* C18: next() and prev() of a program point do not fail, and prev() of its
\* next() and next() of its prev() are the point itself.
C18_NextPrevInverses ==
    /\ call \in {"ProgPoint::next", "ProgPoint::prev"} => ret.ok
    /\ call \in {"ProgPoint::next.prev", "ProgPoint::prev.next"} => ret = Ok(point)

-----------------------------------------------------------------------------
(* Claims on the constructors *)

\* C19: a constructor returns a value exactly when its arguments are in
\* range and panics otherwise: PReg::new for hw_enc < 64, VReg::new for an
\* id < 2^21, SpillSlot::new and SpillSlot::plus for a slot < 2^24,
\* Allocation::new for an index < 2^28, Operand::new unless a FixedReg is of
\* another class than the vreg or a Reuse index is 32 or more, and
\* ProgPoint::new for an instruction index that fits the 31 bits left of
\* the position bit.
C19_ConstructorsValidate ==
    [][/\ \A h \in HwEncs, c \in RegClass :
            PRegNew(h, c) => (ret'.ok <=> h < 2^PReg_MAX_BITS)
       /\ \A id \in VRegIds, c \in RegClass :
            VRegNew(id, c) => (ret'.ok <=> id < 2^VReg_MAX_BITS)
       /\ \A sl \in SlotIds, c \in RegClass :
            SpillSlotNew(sl, c) => (ret'.ok <=> sl < 2^SpillSlot_INDEX_BITS)
       /\ \A off \in SlotOffsets :
            SpillSlotPlus(off) =>
                (ret'.ok <=> slotargs.slot + off < 2^SpillSlot_INDEX_BITS)
       /\ \A k \in AllocationKind, idx \in AllocIdxs :
            AllocationNew(k, idx) => (ret'.ok <=> BelowPow2(idx, 28))
       /\ \A k \in OperandKind, p \in OperandPos, constraint \in Constraints :
            OperandNew(constraint, k, p) =>
                (ret'.ok <=>
                    /\ constraint.tag = "FixedReg" =>
                          PReg_class(constraint.preg) = vregargs.class
                    /\ constraint.tag = "Reuse" => constraint.idx < 32)
       /\ \A i \in InstIdxs, pos \in InstPosition :
            ProgPointNew(i, pos) => (ret'.ok <=> BelowPow2(i.bits, 31))]_vars

\* every stack allocation of a valid spill slot
StackAllocs ==
    {Allocation_stack(SpillSlot_new(sl, c).val).val :
        sl \in {x \in SlotIds : SpillSlot_new(x, "Int").ok}, c \in RegClass}

\* C20: an allocation built by reg() or stack() is not none(), one built by
\* reg() is no stack allocation of a valid slot; of is_none(), is_reg() and
\* is_stack() exactly the one of the constructor used holds, and is_some()
\* is the negation of is_none().
C20_NoneIsDistinct ==
    alloc # NoVal =>
        /\ allocargs.ctor \in {"reg", "stack"} => alloc # Allocation_none.val
        /\ allocargs.ctor = "reg" => alloc \notin StackAllocs
        /\ Allocation_is_none(alloc) = Ok(allocargs.ctor = "none")
        /\ Allocation_is_reg(alloc) = Ok(allocargs.ctor = "reg")
        /\ Allocation_is_stack(alloc) = Ok(allocargs.ctor = "stack")
        /\ Allocation_is_some(alloc) = Ok(allocargs.ctor # "none")
        /\ call = "Allocation::is_none" => ret = Ok(allocargs.ctor = "none")
        /\ call = "Allocation::is_reg" => ret = Ok(allocargs.ctor = "reg")
        /\ call = "Allocation::is_stack" => ret = Ok(allocargs.ctor = "stack")
        /\ call = "Allocation::is_some" => ret = Ok(allocargs.ctor # "none")

\* is_none() has been called on the allocation of register 0 of class Int,
\* whose index is 0 as that of none() is
C20_Witness ==
    /\ call = "Allocation::is_none"
    /\ allocargs = [ctor |-> "reg", preg |-> PReg_new(0, "Int").val]
    /\ Allocation_index(alloc) = Allocation_index(Allocation_none.val)
    /\ ret = Ok(FALSE)

-----------------------------------------------------------------------------
(* Claims on the sentinels and on Output::inst_allocs *)

\* C21: a slot built by SpillSlot::new is not SpillSlot::invalid(): it is
\* valid and not invalid, and index() and class() return the arguments of
\* new; on every slot, the invalid one included, is_valid() is the negation
\* of is_invalid().
C21_InvalidSlotDistinct ==
    slot # NoVal =>
        /\ SpillSlot_is_valid(slot) = ~ SpillSlot_is_invalid(slot)
        /\ call = "SpillSlot::is_valid" => ret = Ok(slotargs # NoVal)
        /\ call = "SpillSlot::is_invalid" => ret = Ok(slotargs = NoVal)
        /\ slotargs # NoVal =>
              /\ slot # SpillSlot_invalid
              /\ SpillSlot_index(slot) = slotargs.slot
              /\ SpillSlot_class(slot) = Ok(slotargs.class)
              /\ call = "SpillSlot::index" => ret = Ok(slotargs.slot)
              /\ call = "SpillSlot::class" => ret = Ok(slotargs.class)

\* class() has been called on the last slot of class Float, the valid slot
\* with the most one bits
C21_Witness ==
    /\ call = "SpillSlot::class"
    /\ slotargs = [slot |-> (2^SpillSlot_INDEX_BITS) - 1, class |-> "Float"]
    /\ ret = Ok("Float")
    /\ SpillSlot_is_valid(slot)

\* C22: a PReg built by PReg::new is not PReg::invalid(), and a VReg built
\* by VReg::new from an id other than the one reserved for the sentinel is
\* not VReg::invalid().
C22_SentinelsReserved ==
    /\ call = "PReg::new" /\ ret.ok => ret.val # PReg_invalid.val
    /\ call = "VReg::new" /\ ret.ok /\ vregargs.virt_reg # VReg_MAX =>
          ret.val # VReg_invalid.val

-----------------------------------------------------------------------------
(* A client of Output::inst_allocs *)

\* the longest allocation array the client is handed
MaxAllocs == 3

RECURSIVE OffsetsOf(_, _)
\* the offset table of operand lists q, the first at offset `at`
OffsetsOf(q, at) ==
    IF q = <<>> THEN <<>>
    ELSE <<at>> \o OffsetsOf(Tail(q), at + Len(Head(q)))

\* An Output with the offset table and the number of allocations given; its
\* j'th allocation is stack slot j, so that no two are equal.
OutputOf(offsets, n) ==
    [num_spillslots |-> n,
     edits |-> <<>>,
     allocs |-> [j \in 1..n |->
        Allocation_stack(SpillSlot_new(j, "Int").val).val],
     inst_alloc_offsets |-> offsets,
     safepoint_slots |-> <<>>]

\* The client holds an Output for a Function of NumInsts instructions with
\* up to one operand each. The Output struct has public fields: the table
\* may be any.
InitInstAllocs ==
    /\ debug_assertions = FALSE
    /\ preg = NoVal /\ vreg = NoVal /\ vregargs = NoVal
    /\ slot = NoVal /\ slotargs = NoVal
    /\ operand = NoVal /\ opargs = NoVal
    /\ alloc = NoVal /\ allocargs = NoVal
    /\ point = NoVal /\ pointargs = NoVal /\ instarg = NoVal
    /\ call = "run" /\ ret = NoVal
    /\ env = NoVal
    /\ \E n \in [Insts -> 0..1] :
          func = [num_insts |-> NumInsts,
                  inst_operands |-> [i \in Insts |->
                      [k \in 1..n[i] |-> Operand_reg_use(VReg_new(k, "Int").val)]]]
    /\ phase = "done"
    /\ liveness = NoVal
    /\ queue = {}
    /\ assigned = {}
    /\ \E offsets \in [1..NumInsts -> 0..MaxAllocs], n \in 0..MaxAllocs :
          result = [ok |-> TRUE, val |-> OutputOf(offsets, n)]

\* output.inst_allocs(inst)
CallInstAllocs(inst) ==
    /\ phase = "done"
    /\ result.ok
    /\ call' = "Output::inst_allocs"
    /\ ret' = Output_inst_allocs(result.val, inst)
    /\ instarg' = inst
    /\ UNCHANGED <<debug_assertions, preg, vreg, vregargs, slot, slotargs,
                   operand, opargs, alloc, allocargs, point, pointargs, avars>>

NextInstAllocs == \E i \in Insts : CallInstAllocs(i)

SpecInstAllocs == InitInstAllocs /\ [][NextInstAllocs]_vars

\* the offset table is non-decreasing and no entry is past the allocations
TableInOrder(out) ==
    /\ \A i \in 1..(Len(out.inst_alloc_offsets) - 1) :
          out.inst_alloc_offsets[i] <= out.inst_alloc_offsets[i + 1]
    /\ \A i \in 1..Len(out.inst_alloc_offsets) :
          out.inst_alloc_offsets[i] <= Len(out.allocs)

\* C23: on an Output whose offset table is non-decreasing with no entry past
\* allocs.len(), inst_allocs(i) is allocs[offsets[i] .. offsets[i + 1]], or
\* allocs[offsets[i] .. allocs.len()] for the last instruction: the slice
\* starts where the one of the instruction before ended, and when the table
\* is the one of the operand lists of the Function it has one entry per
\* operand of instruction i.
C23_InstAllocsSlices ==
    call = "Output::inst_allocs" /\ TableInOrder(result.val) =>
        LET out == result.val
            i == instarg
            from == out.inst_alloc_offsets[i + 1]
            to == IF i = LastInst THEN Len(out.allocs)
                  ELSE out.inst_alloc_offsets[i + 2]
        IN  /\ ret.ok
            /\ Len(ret.val) = to - from
            /\ \A k \in 1..Len(ret.val) : ret.val[k] = out.allocs[from + k]
            /\ i > 0 =>
                  LET before == Output_inst_allocs(out, i - 1)
                  IN  /\ before.ok
                      /\ Len(before.val) = from - out.inst_alloc_offsets[i]
            /\ (/\ out.inst_alloc_offsets =
                      OffsetsOf([j \in 1..NumInsts |-> func.inst_operands[j - 1]], 0)
                /\ Len(out.allocs) = out.inst_alloc_offsets[NumInsts]
                                        + Len(func.inst_operands[LastInst]))
                  => Len(ret.val) = Len(func.inst_operands[i])

\* inst_allocs has answered, for an instruction other than the last, with a
\* slice that is not empty and stops short of the end of the allocations, on
\* the offset table of the operand lists of the Function
C23_Witness ==
    /\ call = "Output::inst_allocs"
    /\ TableInOrder(result.val)
    /\ instarg # LastInst
    /\ ret.ok
    /\ Len(ret.val) >= 1
    /\ result.val.inst_alloc_offsets[instarg + 2] < Len(result.val.allocs)
    /\ result.val.inst_alloc_offsets =
          OffsetsOf([j \in 1..NumInsts |-> func.inst_operands[j - 1]], 0)
    /\ Len(result.val.allocs) = result.val.inst_alloc_offsets[NumInsts]
                                  + Len(func.inst_operands[LastInst])

=============================================================================
